---------------------------- MODULE Spec2Model ----------------------------
(***************************************************************************)
(* A model of the ZMODEM transfer engine of rollshell:                     *)
(*   - the frame codec   (lib/modules/zmodem/frame_builder.go, frame.go),  *)
(*   - the protocol engine ZmodemImpl (lib/modules/zmodem/zmodem.go),      *)
(*   - the session registry and the C API (session.go, main.go),           *)
(*   - the stream sniffer in SSHManager and the ZMODEMManager (TypeScript).*)
(* Bytes are the naturals 0..255.  A 32-bit value (flags, CRC32) is kept   *)
(* as its four big-endian bytes, a 16-bit value as two.                    *)
(***************************************************************************)
EXTENDS Integers, Sequences, FiniteSets, TLC

(***************************************************************************)
(* Protocol constants (frame.go)                                           *)
(***************************************************************************)
ZPAD == 42
ZDLE == 24
ZDLEE == 94
ZDLE_ESC == 64
ZHEX == 48
ZBIN == 49
ZBIN32 == 50
ZCRCE == 104
ZCRCG == 105
ZCRCQ == 106
ZCRCW == 107

FrameZRINIT == 0
FrameZRQINIT == 1
FrameZSINIT == 2
FrameZACK == 3
FrameZFILE == 4
FrameZSKIP == 5
FrameZNAK == 6
FrameZABORT == 7
FrameZFIN == 8
FrameZRPOS == 9
FrameZDATA == 10
FrameZEOF == 11

\* ASCII codes used by the parser and the sniffer
ChB == 66
ChAt == 64
ChCR == 13
ChLF == 10

\* F applied to the value of v: v is evaluated once, before F's body
Bind(v, F(_)) == CHOOSE r \in { F(x) : x \in { v } } : TRUE

(***************************************************************************)
(* Bit arithmetic on bytes and 16-bit halves                               *)
(***************************************************************************)
RECURSIVE XorBits(_, _, _)
XorBits(a, b, n) ==
    IF n = 0 THEN 0
    ELSE ((a + b) % 2) + 2 * XorBits(a \div 2, b \div 2, n - 1)

\* a ^ b on 4-bit values, tabulated
XorNibble == [a \in 0..15 |-> [b \in 0..15 |-> XorBits(a, b, 4)]]

\* a ^ b on 16-bit values
Xor16(a, b) ==
    XorNibble[a % 16][b % 16]
      + 16 * XorNibble[(a \div 16) % 16][(b \div 16) % 16]
      + 256 * XorNibble[(a \div 256) % 16][(b \div 256) % 16]
      + 4096 * XorNibble[(a \div 4096) % 16][(b \div 4096) % 16]

\* escaped ^ ZDLE_ESC on a byte (frame.go readZDLEEscapedByte, frame_builder.go)
XorEsc(b) == IF (b \div 64) % 2 = 1 THEN b - 64 ELSE b + 64

\* binary.BigEndian.PutUint32 for a value below 2^31
PutUint32(v) ==
    << (v \div 16777216) % 256, (v \div 65536) % 256, (v \div 256) % 256, v % 256 >>

CRC16_POLY == 4129
CRC32_POLY_HI == 60856
CRC32_POLY_LO == 33568

\* one bit step of CalculateCRC16 on a 16-bit register
Crc16Bit(crc) ==
    IF crc >= 32768
    THEN Xor16((crc * 2) % 65536, CRC16_POLY)
    ELSE (crc * 2) % 65536

RECURSIVE Crc16Bits(_, _)
Crc16Bits(crc, n) ==
    IF n = 0 THEN crc
    ELSE Bind(Crc16Bit(crc), LAMBDA c : Crc16Bits(c, n - 1))

RECURSIVE Crc16Loop(_, _, _)
Crc16Loop(data, i, crc) ==
    IF i > Len(data) THEN crc
    ELSE Bind(Crc16Bits(Xor16(crc, data[i] * 256), 8),
              LAMBDA c : Crc16Loop(data, i + 1, c))

\* CalculateCRC16: the 16-bit result
CalculateCRC16(data) == Crc16Loop(data, 1, 0)

\* one bit step of CalculateCRC32 on a register kept as <<hi16, lo16>>
Crc32Bit(crc) ==
    IF crc[2] % 2 = 1
    THEN << Xor16(crc[1] \div 2, CRC32_POLY_HI),
            Xor16((crc[2] \div 2) + (crc[1] % 2) * 32768, CRC32_POLY_LO) >>
    ELSE << crc[1] \div 2, (crc[2] \div 2) + (crc[1] % 2) * 32768 >>

RECURSIVE Crc32Bits(_, _)
Crc32Bits(crc, n) ==
    IF n = 0 THEN crc
    ELSE Bind(Crc32Bit(crc), LAMBDA c : Crc32Bits(c, n - 1))

\* the loop of CalculateCRC32 over data[i..j]; a range of several bytes is
\* run as its two halves, one after the other
RECURSIVE Crc32Span(_, _, _, _)
Crc32Span(data, i, j, crc) ==
    IF i > j THEN crc
    ELSE IF i = j THEN Crc32Bits(<< crc[1], Xor16(crc[2], data[i]) >>, 8)
    ELSE Bind(Crc32Span(data, i, (i + j) \div 2, crc),
              LAMBDA c : Crc32Span(data, ((i + j) \div 2) + 1, j, c))

Crc32Loop(data, i, crc) == Crc32Span(data, i, Len(data), crc)

\* CalculateCRC32: the result as <<hi16, lo16>>
CalculateCRC32(data) ==
    Bind(Crc32Loop(data, 1, << 65535, 65535 >>),
         LAMBDA r : << 65535 - r[1], 65535 - r[2] >>)

(***************************************************************************)
(* frame_builder.go                                                        *)
(***************************************************************************)
\* the bytes BuildBinaryFrame escapes in the payload (frame_builder.go:39)
NeedsEscape(b) ==
    \/ b = ZDLE
    \/ b = ChAt
    \/ (b >= 16 /\ b <= 26)
    \/ b = 127
    \/ b = 141
    \/ b = 138

\* the loop of EscapeData over data[i..j]; a range of several bytes is
\* escaped as its two halves
RECURSIVE EscapeSpan(_, _, _)
EscapeSpan(data, i, j) ==
    IF i > j THEN << >>
    ELSE IF i = j
    THEN (IF NeedsEscape(data[i]) THEN << ZDLE, XorEsc(data[i]) >> ELSE << data[i] >>)
    ELSE EscapeSpan(data, i, (i + j) \div 2) \o EscapeSpan(data, ((i + j) \div 2) + 1, j)

EscapeData(data, i) == EscapeSpan(data, i, Len(data))

\* the four bytes of a CRC32 kept as <<hi16, lo16>>, big-endian
Crc32Bytes(c) == << c[1] \div 256, c[1] % 256, c[2] \div 256, c[2] % 256 >>

\* the two bytes of a CRC16, big-endian
Crc16Bytes(c) == << c \div 256, c % 256 >>

\* the frame with its CRC, computed over everything after ZPAD ZPAD
WithCRC(body, useCRC32) ==
    IF useCRC32
    THEN body \o Crc32Bytes(CalculateCRC32(SubSeq(body, 3, Len(body))))
    ELSE body \o Crc16Bytes(CalculateCRC16(SubSeq(body, 3, Len(body))))

BuildBinaryFrame(frameType, flags, f0, f1, f2, f3, data, useCRC32) ==
    Bind(<< ZPAD, ZPAD, ZDLE, (IF useCRC32 THEN ZBIN32 ELSE ZBIN), frameType >>
           \o flags \o << f0, f1, f2, f3 >>
           \o (IF Len(data) > 0 THEN EscapeData(data, 1) \o << ZDLE, ZCRCE >> ELSE << >>),
         LAMBDA body : WithCRC(body, useCRC32))

(***************************************************************************)
(* frame.go: FrameParser                                                   *)
(* A parser is [buffer, state, frameType]; positions are 0-based as in the *)
(* source, so the byte at position pos is buf[pos + 1].                    *)
(***************************************************************************)
NewFrameParser == [buffer |-> << >>, state |-> "idle", frameType |-> 0]

AddData(p, data) == [p EXCEPT !.buffer = p.buffer \o data]

\* a Reset that keeps what the parser holds
ResetKeeps(p) == p

Reset(p) == [buffer |-> << >>, state |-> "idle", frameType |-> 0]

Drop(buf, n) == SubSeq(buf, n + 1, Len(buf))

IsHexChar(c) ==
    \/ (c >= 48 /\ c <= 57)
    \/ (c >= 97 /\ c <= 102)
    \/ (c >= 65 /\ c <= 70)

HexVal(c) ==
    IF c >= 48 /\ c <= 57 THEN c - 48
    ELSE IF c >= 97 /\ c <= 102 THEN c - 87
    ELSE c - 55

\* readZDLEEscapedByte: [b, consumed, err]
readZDLEEscapedByte(buf, startPos) ==
    IF startPos >= Len(buf) THEN [b |-> 0, consumed |-> 0, err |-> TRUE]
    ELSE IF buf[startPos + 1] = ZDLE
         THEN IF startPos + 1 >= Len(buf)
              THEN [b |-> 0, consumed |-> 0, err |-> FALSE]
              ELSE [b |-> XorEsc(buf[startPos + 2]), consumed |-> 2, err |-> FALSE]
         ELSE [b |-> buf[startPos + 1], consumed |-> 1, err |-> FALSE]

\* readZDLEEscapedBytes: [bytes, consumed, err]; consumed = 0 means "not enough data"
RECURSIVE ReadBytesFrom(_, _, _, _, _)
ReadBytesFrom(buf, startPos, pos, count, acc) ==
    IF count = 0 THEN [bytes |-> acc, consumed |-> pos - startPos, err |-> FALSE]
    ELSE Bind(readZDLEEscapedByte(buf, pos), LAMBDA r :
         IF r.err THEN [bytes |-> << >>, consumed |-> 0, err |-> TRUE]
         ELSE IF r.consumed = 0 THEN [bytes |-> << >>, consumed |-> 0, err |-> FALSE]
         ELSE ReadBytesFrom(buf, startPos, pos + r.consumed, count - 1,
                            Append(acc, r.b)))

readZDLEEscapedBytes(buf, startPos, count) ==
    ReadBytesFrom(buf, startPos, startPos, count, << >>)

IsEndMarker(b) == b = ZCRCE \/ b = ZCRCG \/ b = ZCRCQ \/ b = ZCRCW

\* the ZDATA payload loop of parseBinaryFrame (frame.go:505-549):
\* [pos, data, short]; short = the "return nil, 0, nil" inside the loop
RECURSIVE ZdataLoop(_, _, _, _)
ZdataLoop(buf, pos, maxDataPos, data) ==
    IF ~(pos < maxDataPos) THEN [pos |-> pos, data |-> data, short |-> FALSE]
    ELSE IF buf[pos + 1] = ZDLE
         THEN IF pos + 1 < Len(buf) /\ IsEndMarker(buf[pos + 2])
              THEN [pos |-> pos + 2, data |-> data, short |-> FALSE]
              ELSE IF pos + 1 < Len(buf) /\ buf[pos + 2] = ZDLEE
              THEN ZdataLoop(buf, pos + 2, maxDataPos, Append(data, ZDLE))
              ELSE IF pos + 1 >= Len(buf)
              THEN [pos |-> pos, data |-> data, short |-> TRUE]
              ELSE ZdataLoop(buf, pos + 2, maxDataPos,
                             Append(data, XorEsc(buf[pos + 2])))
         ELSE ZdataLoop(buf, pos + 1, maxDataPos, Append(data, buf[pos + 1]))

\* the ZFILE payload loop (frame.go:556-567): up to the first NUL
RECURSIVE ZfileLoop(_, _, _)
ZfileLoop(buf, pos, data) ==
    IF ~(pos < Len(buf)) THEN [pos |-> pos, data |-> data, short |-> FALSE]
    ELSE Bind(readZDLEEscapedByte(buf, pos), LAMBDA r :
         IF r.err \/ r.consumed = 0 THEN [pos |-> pos, data |-> data, short |-> FALSE]
         ELSE IF r.b = 0 THEN [pos |-> pos + r.consumed, data |-> data, short |-> FALSE]
         ELSE ZfileLoop(buf, pos + r.consumed, Append(data, r.b)))

\* the ZACK / ZRPOS payload loop (frame.go:572-579): up to four bytes
RECURSIVE ZposLoop(_, _, _)
ZposLoop(buf, pos, data) ==
    IF ~(pos < Len(buf) /\ Len(data) < 4) THEN [pos |-> pos, data |-> data, short |-> FALSE]
    ELSE Bind(readZDLEEscapedByte(buf, pos), LAMBDA r :
         IF r.err \/ r.consumed = 0 THEN [pos |-> pos, data |-> data, short |-> FALSE]
         ELSE ZposLoop(buf, pos + r.consumed, Append(data, r.b)))

NoParse == [frame |-> << >>, consumed |-> 0, err |-> FALSE]
ParseError == [frame |-> << >>, consumed |-> 0, err |-> TRUE]

\* size of the CRC of a binary frame of format fmt
CrcSize(fmt) == IF fmt = ZBIN32 THEN 4 ELSE 2

\* the payload part of parseBinaryFrame (frame.go:492-581) for a frame of
\* type t whose header ends at pos: [pos, data, short]
FramePayload(buf, fmt, t, pos) ==
    IF t = FrameZDATA THEN ZdataLoop(buf, pos, Len(buf) - CrcSize(fmt), << >>)
    ELSE IF t = FrameZFILE THEN ZfileLoop(buf, pos, << >>)
    ELSE IF t = FrameZACK \/ t = FrameZRPOS THEN ZposLoop(buf, pos, << >>)
    ELSE [pos |-> pos, data |-> << >>, short |-> FALSE]

\* parseBinaryFrame: [frame (a sequence of 0 or 1 frames), consumed, err]
parseBinaryFrame(buf, fmt) ==
    Bind(readZDLEEscapedByte(buf, 0), LAMBDA t :
    IF t.err THEN ParseError
    ELSE IF t.consumed = 0 THEN NoParse
    ELSE
    Bind(readZDLEEscapedBytes(buf, t.consumed, 4), LAMBDA fl :
    IF fl.err THEN ParseError
    ELSE IF fl.consumed = 0 THEN NoParse
    ELSE
    Bind(readZDLEEscapedBytes(buf, t.consumed + fl.consumed, 4), LAMBDA fb :
    IF fb.err THEN ParseError
    ELSE IF fb.consumed = 0 THEN NoParse
    ELSE
    Bind(FramePayload(buf, fmt, t.b, t.consumed + fl.consumed + fb.consumed),
         LAMBDA body :
    IF body.short THEN NoParse
    ELSE IF body.pos >= Len(buf) THEN NoParse
    ELSE
    Bind(readZDLEEscapedBytes(buf, body.pos, CrcSize(fmt)), LAMBDA crc :
    IF crc.err \/ crc.consumed = 0 THEN NoParse
    ELSE [frame |-> << [Type |-> t.b, Flags |-> fl.bytes,
                        F0 |-> fb.bytes[1], F1 |-> fb.bytes[2],
                        F2 |-> fb.bytes[3], F3 |-> fb.bytes[4],
                        Data |-> body.data, CRC |-> crc.bytes,
                        FrameType |-> fmt] >>,
          consumed |-> body.pos + crc.consumed, err |-> FALSE])))))

\* end of the run of hex characters that starts at position pos
RECURSIVE HexEnd(_, _)
HexEnd(buf, pos) ==
    IF pos < Len(buf) /\ IsHexChar(buf[pos + 1]) THEN HexEnd(buf, pos + 1) ELSE pos

\* end of the run of CR / LF that starts at position pos
RECURSIVE SkipCRLF(_, _)
SkipCRLF(buf, pos) ==
    IF pos < Len(buf) /\ (buf[pos + 1] = ChCR \/ buf[pos + 1] = ChLF)
    THEN SkipCRLF(buf, pos + 1) ELSE pos

\* the byte hex.DecodeString yields at index k (0-based) of the hex run at startIdx
HexByte(buf, startIdx, k) ==
    16 * HexVal(buf[startIdx + 2 * k + 1]) + HexVal(buf[startIdx + 2 * k + 2])

\* the type mapping of parseHexFrame (frame.go:389-398)
HexTypeMap(b) ==
    IF b = 1 THEN FrameZRINIT
    ELSE IF b = 3 THEN FrameZACK
    ELSE IF b = 9 THEN FrameZRPOS
    ELSE b

\* the frame parseHexFrame builds from the hex run [startIdx, hexEnd)
HexFrame(buf, startIdx, hexEnd) ==
    IF hexEnd - startIdx < 10 THEN NoParse
    ELSE IF (hexEnd - startIdx) % 2 = 1 THEN ParseError
    ELSE [frame |-> << [Type |-> HexTypeMap(HexByte(buf, startIdx, 0)),
                        Flags |-> << HexByte(buf, startIdx, 1), HexByte(buf, startIdx, 2),
                                     HexByte(buf, startIdx, 3), HexByte(buf, startIdx, 4) >>,
                        F0 |-> 0, F1 |-> 0, F2 |-> 0, F3 |-> 0,
                        Data |-> << >>, CRC |-> << >>,
                        FrameType |-> ZHEX] >>,
          consumed |-> SkipCRLF(buf, hexEnd), err |-> FALSE]

parseHexFrame(buf) ==
    IF Len(buf) = 0 THEN NoParse
    ELSE IF ~IsHexChar(buf[1]) /\ Len(buf) <= 1 THEN NoParse
    ELSE Bind(IF IsHexChar(buf[1]) THEN 0 ELSE 1, LAMBDA startIdx :
         Bind(HexEnd(buf, startIdx), LAMBDA hexEnd : HexFrame(buf, startIdx, hexEnd)))

parseFrameData(buf, fmt) ==
    IF fmt = ZHEX THEN parseHexFrame(buf) ELSE parseBinaryFrame(buf, fmt)

\* index (0-based) of the first ZPAD ZPAD at or after position i, or -1
\* the same search over the positions i..j, by halves
RECURSIVE FindPadSpan(_, _, _)
FindPadSpan(buf, i, j) ==
    IF i > j THEN -1
    ELSE IF i = j THEN (IF buf[i + 1] = ZPAD /\ buf[i + 2] = ZPAD THEN i ELSE -1)
    ELSE Bind(FindPadSpan(buf, i, (i + j) \div 2), LAMBDA first :
         IF first # -1 THEN first ELSE FindPadSpan(buf, ((i + j) \div 2) + 1, j))

FindPadPad(buf, i) == FindPadSpan(buf, i, Len(buf) - 2)

IdleKeepAbove == 1024
IdleKeepTail == 256

IsFormat(b) == b = ZHEX \/ b = ZBIN \/ b = ZBIN32

\* the waiting_zdle case of ParseFrame (frame.go:147-241) for a buffer
\* whose first byte is b and whose other bytes are rest:
\* [p, wait]; wait = the case returned nil, nil
WaitingZdle(p, b, rest) ==
    IF b = ZDLE
    THEN IF Len(rest) < 1
         THEN [p |-> [p EXCEPT !.buffer = rest], wait |-> TRUE]
         ELSE IF IsFormat(rest[1])
         THEN [p |-> [buffer |-> Drop(rest, 1), state |-> "reading_frame",
                      frameType |-> rest[1]], wait |-> FALSE]
         ELSE IF rest[1] = ChB
         THEN IF Len(rest) >= 2
              THEN IF IsHexChar(rest[2])
                   THEN [p |-> [buffer |-> Drop(rest, 1), state |-> "reading_frame",
                                frameType |-> ZHEX], wait |-> FALSE]
                   ELSE [p |-> [buffer |-> Drop(rest, 1), state |-> "reading_frame",
                                frameType |-> ZBIN32], wait |-> FALSE]
              ELSE [p |-> [p EXCEPT !.buffer = rest], wait |-> TRUE]
         ELSE [p |-> [buffer |-> rest, state |-> "reading_frame",
                      frameType |-> ZBIN32], wait |-> FALSE]
    ELSE IF IsFormat(b)
    THEN [p |-> [buffer |-> rest, state |-> "reading_frame", frameType |-> b],
          wait |-> FALSE]
    ELSE [p |-> [p EXCEPT !.state = "idle"], wait |-> FALSE]

\* the start of the reading_frame case (frame.go:243-262): the format is
\* taken from the buffer when it is not known yet
WithFormat(p) ==
    IF p.frameType = 0
    THEN IF IsFormat(p.buffer[1])
         THEN [p EXCEPT !.frameType = p.buffer[1], !.buffer = Drop(p.buffer, 1)]
         ELSE [p EXCEPT !.frameType = ZBIN32]
    ELSE p

\* the rest of the reading_frame case (frame.go:264-309)
ReadingFrame(q) ==
    Bind(parseFrameData(q.buffer, q.frameType), LAMBDA r :
    IF r.err THEN [p |-> Reset(q), frame |-> << >>, err |-> TRUE]
    ELSE IF Len(r.frame) > 0
    THEN [p |-> [q EXCEPT !.buffer = Drop(q.buffer, r.consumed), !.state = "idle"],
          frame |-> r.frame, err |-> FALSE]
    ELSE [p |-> q, frame |-> << >>, err |-> FALSE])

\* ParseFrame: [p, frame (0 or 1 frames), err]
RECURSIVE ParseFrame(_)
ParseFrame(p) ==
    IF Len(p.buffer) = 0 THEN [p |-> p, frame |-> << >>, err |-> FALSE]
    ELSE IF p.state = "idle"
    THEN IF Len(p.buffer) < 2 THEN [p |-> p, frame |-> << >>, err |-> FALSE]
         ELSE Bind(FindPadPad(p.buffer, 0), LAMBDA startIdx :
              IF startIdx = -1
              THEN [p |-> IF Len(p.buffer) > IdleKeepAbove
                          THEN [p EXCEPT !.buffer =
                                    Drop(p.buffer, Len(p.buffer) - IdleKeepTail)]
                          ELSE p,
                    frame |-> << >>, err |-> FALSE]
              ELSE Bind([p EXCEPT !.buffer = Drop(p.buffer, startIdx + 2),
                                  !.state = "waiting_zdle"],
                        LAMBDA q : ParseFrame(q)))
    ELSE IF p.state = "waiting_zdle"
    THEN Bind(WaitingZdle(p, p.buffer[1], Drop(p.buffer, 1)), LAMBDA w :
         IF w.wait THEN [p |-> w.p, frame |-> << >>, err |-> FALSE]
         ELSE ParseFrame(w.p))
    ELSE Bind(WithFormat(p), LAMBDA q : ReadingFrame(q))

\* one pass of the loop of ParseFrame (frame.go:115-312) over a buffer that is
\* not empty: [p, ret, frame, err]; ret = the pass returned from ParseFrame
ParsePass(p) ==
    IF p.state = "idle"
    THEN IF Len(p.buffer) < 2
         THEN [p |-> p, ret |-> TRUE, frame |-> << >>, err |-> FALSE]
         ELSE Bind(FindPadPad(p.buffer, 0), LAMBDA startIdx :
              IF startIdx = -1
              THEN [p |-> IF Len(p.buffer) > IdleKeepAbove
                          THEN [p EXCEPT !.buffer =
                                    Drop(p.buffer, Len(p.buffer) - IdleKeepTail)]
                          ELSE p,
                    ret |-> TRUE, frame |-> << >>, err |-> FALSE]
              ELSE [p |-> [p EXCEPT !.buffer = Drop(p.buffer, startIdx + 2),
                                    !.state = "waiting_zdle"],
                    ret |-> FALSE, frame |-> << >>, err |-> FALSE])
    ELSE IF p.state = "waiting_zdle"
    THEN Bind(WaitingZdle(p, p.buffer[1], Drop(p.buffer, 1)), LAMBDA w :
         [p |-> w.p, ret |-> w.wait, frame |-> << >>, err |-> FALSE])
    ELSE Bind(ReadingFrame(WithFormat(p)), LAMBDA r :
         [p |-> r.p, ret |-> TRUE, frame |-> r.frame, err |-> r.err])

\* CleanupBuffer (frame.go:671-677)
CleanupKeep == 512

CleanupBuffer(p) ==
    IF Len(p.buffer) > CleanupKeep
    THEN [p EXCEPT !.buffer = Drop(p.buffer, Len(p.buffer) - CleanupKeep)]
    ELSE p

(***************************************************************************)
(* frame_builder.go: the frames the engine sends                           *)
(***************************************************************************)
ZeroFlags == << 0, 0, 0, 0 >>

BuildZDATAFrame(data, position) ==
    BuildBinaryFrame(FrameZDATA, PutUint32(position), 0, 0, 0, 0, data, TRUE)

\* fmt.Sprintf("%d", size) as ASCII digits
RECURSIVE DecDigits(_)
DecDigits(n) ==
    IF n < 10 THEN << 48 + n >> ELSE Append(DecDigits(n \div 10), 48 + (n % 10))

BuildZFILEFrameBinary(filename, size) ==
    BuildBinaryFrame(FrameZFILE, ZeroFlags, 0, 0, 0, 0,
                     filename \o << 0 >> \o DecDigits(size)
                       \o << 32, 48, 32, 48, 32, 48, 0 >>,
                     TRUE)

\* CANFDX | CANOVIO | CANBRK | CANFC32 = 0xF0
BuildZRINITFrame == BuildBinaryFrame(FrameZRINIT, << 0, 0, 0, 240 >>, 0, 0, 0, 0, << >>, TRUE)

BuildZACKFrame(position) ==
    BuildBinaryFrame(FrameZACK, ZeroFlags, 0, 0, 0, 0, PutUint32(position), TRUE)

BuildZRPOSFrame(position) ==
    BuildBinaryFrame(FrameZRPOS, ZeroFlags, 0, 0, 0, 0, PutUint32(position), TRUE)

BuildZEOFFrame(position) ==
    BuildBinaryFrame(FrameZEOF, ZeroFlags, 0, 0, 0, 0, PutUint32(position), TRUE)

BuildZFINFrame == BuildBinaryFrame(FrameZFIN, ZeroFlags, 0, 0, 0, 0, << >>, TRUE)

(***************************************************************************)
(* zmodem.go: ZmodemImpl                                                   *)
(* An engine is a record:                                                  *)
(*   mode (0 upload, 1 download), state, transferred, fileSize,           *)
(*   fileOpen (file != nil), content (the local file's bytes: the source   *)
(*   of an upload, what a download has written), readPos (read offset),    *)
(*   outputBuf, inputLen (length of inputBuf), parser, filename.           *)
(***************************************************************************)
ModeUpload == 0
ModeDownload == 1

\* the base name the model gives every local file: "a"
BaseName == << 97 >>

\* NewZmodemImpl for a file that can be opened; content is the upload source
NewZmodemImpl(mode, content) ==
    IF mode = ModeUpload
    THEN [mode |-> mode, state |-> "sending_header", transferred |-> 0,
          fileSize |-> Len(content), fileOpen |-> TRUE, content |-> content,
          readPos |-> 0,
          outputBuf |-> BuildZFILEFrameBinary(BaseName, Len(content)),
          inputLen |-> 0, parser |-> NewFrameParser, filename |-> BaseName]
    ELSE [mode |-> mode, state |-> "receiving_header", transferred |-> 0,
          fileSize |-> 0, fileOpen |-> TRUE, content |-> << >>,
          readPos |-> 0,
          outputBuf |-> BuildZRINITFrame,
          inputLen |-> 0, parser |-> NewFrameParser, filename |-> BaseName]

\* Close with the file handle dropped and the counters reset
CloseRewinds(z) == [z EXCEPT !.fileOpen = FALSE, !.transferred = 0]

\* Close
Close(z) == [z EXCEPT !.fileOpen = FALSE]

\* GetTransferred
GetTransferred(z) == z.transferred

\* index (0-based) of the first NUL of data, or -1
RECURSIVE FirstNul(_, _)
FirstNul(data, i) ==
    IF i >= Len(data) THEN -1
    ELSE IF data[i + 1] = 0 THEN i
    ELSE FirstNul(data, i + 1)

\* binary.BigEndian.Uint64 of eight bytes
RECURSIVE BigEndianValue(_, _)
BigEndianValue(bytes, n) ==
    IF n = 0 THEN 0 ELSE 256 * BigEndianValue(bytes, n - 1) + bytes[n]

parseZFILEFrame(z, frame) ==
    IF Len(frame.Data) = 0 THEN z
    ELSE Bind(FirstNul(frame.Data, 0), LAMBDA nullIdx :
         IF nullIdx > 0
         THEN IF nullIdx + 1 + 8 <= Len(frame.Data)
              THEN Bind(BigEndianValue(SubSeq(frame.Data, nullIdx + 2, nullIdx + 9), 8),
                        LAMBDA size :
                        IF size > 0
                        THEN [z EXCEPT !.filename = SubSeq(frame.Data, 1, nullIdx),
                                       !.fileSize = size]
                        ELSE [z EXCEPT !.filename = SubSeq(frame.Data, 1, nullIdx)])
              ELSE [z EXCEPT !.filename = SubSeq(frame.Data, 1, nullIdx)]
         ELSE [z EXCEPT !.filename = frame.Data])

MaxIterations == 100

\* the dispatch of one decoded frame in download mode (zmodem.go:320-402):
\* [z, err]
\* case FrameZEOF with the two answers queued in the other order
EndOfFileFinFirst(z) ==
    [z EXCEPT !.state = "completed",
              !.outputBuf = @ \o BuildZFINFrame \o BuildZACKFrame(z.transferred)]

\* case FrameZEOF of the download branch of FeedData
EndOfFile(z) ==
    [z EXCEPT !.state = "completed",
              !.outputBuf = @ \o BuildZACKFrame(z.transferred) \o BuildZFINFrame]

DispatchDownload(z, frame) ==
    LET t == frame.Type IN
    IF t = FrameZSINIT
    THEN [z |-> [z EXCEPT !.outputBuf = @ \o BuildZACKFrame(0)], err |-> FALSE]
    ELSE IF t = FrameZFILE
    THEN [z |-> [parseZFILEFrame(z, frame) EXCEPT
                    !.state = "receiving_data",
                    !.outputBuf = @ \o BuildZACKFrame(0)],
          err |-> FALSE]
    ELSE IF t = FrameZDATA
    THEN IF z.state = "receiving_data" /\ z.fileOpen
         THEN IF Len(frame.Data) > 0
              THEN [z |-> [z EXCEPT
                              !.content = @ \o frame.Data,
                              !.transferred = @ + Len(frame.Data),
                              !.outputBuf = @ \o BuildZRPOSFrame(z.transferred + Len(frame.Data))],
                    err |-> FALSE]
              ELSE [z |-> z, err |-> FALSE]
         ELSE IF z.state = "receiving_header"
         THEN IF z.fileOpen /\ Len(frame.Data) > 0
              THEN [z |-> [z EXCEPT !.state = "receiving_data",
                                    !.content = @ \o frame.Data,
                                    !.transferred = @ + Len(frame.Data)],
                    err |-> FALSE]
              ELSE [z |-> [z EXCEPT !.state = "receiving_data"], err |-> FALSE]
         ELSE [z |-> z, err |-> FALSE]
    ELSE IF t = FrameZEOF
    THEN [z |-> EndOfFile(z), err |-> FALSE]
    ELSE IF t = FrameZFIN
    THEN [z |-> [z EXCEPT !.state = "completed", !.outputBuf = @ \o BuildZFINFrame],
          err |-> FALSE]
    ELSE IF t = FrameZACK
    THEN [z |-> IF z.state = "sending_header" THEN [z EXCEPT !.state = "sending_data"] ELSE z,
          err |-> FALSE]
    ELSE IF t = FrameZNAK \/ t = FrameZABORT
    THEN [z |-> z, err |-> TRUE]
    ELSE [z |-> z, err |-> FALSE]

\* an upload dispatch that takes every frame for the receiver's go-ahead
DispatchUploadEager(z, frame) ==
    [z |-> IF z.state = "sending_header" THEN [z EXCEPT !.state = "sending_data"] ELSE z,
     err |-> FALSE]

\* the dispatch of one decoded frame in upload mode (zmodem.go:439-504)
DispatchUpload(z, frame) ==
    LET t == frame.Type IN
    IF t = FrameZRINIT
    THEN IF z.state = "idle" \/ z.state = "sending_header"
         THEN [z |-> [z EXCEPT
                        !.outputBuf = IF Len(@) = 0
                                      THEN BuildZFILEFrameBinary(z.filename, z.fileSize)
                                      ELSE @,
                        !.state = IF @ = "sending_header" THEN "sending_data" ELSE @],
               err |-> FALSE]
         ELSE [z |-> z, err |-> FALSE]
    ELSE IF t = FrameZACK
    THEN [z |-> IF z.state = "sending_header" THEN [z EXCEPT !.state = "sending_data"]
                ELSE IF z.state = "sending_eof" THEN [z EXCEPT !.state = "completed"]
                ELSE z,
          err |-> FALSE]
    ELSE IF t = FrameZRPOS
    THEN [z |-> IF z.state = "sending_header" THEN [z EXCEPT !.state = "sending_data"] ELSE z,
          err |-> FALSE]
    ELSE IF t = FrameZNAK \/ t = FrameZABORT
    THEN [z |-> z, err |-> TRUE]
    ELSE [z |-> z, err |-> FALSE]

Dispatch(z, frame) ==
    IF z.mode = ModeDownload THEN DispatchDownload(z, frame) ELSE DispatchUpload(z, frame)

\* one iteration of the parse loop of FeedData (zmodem.go:305-402, 416-504):
\* [z, err, log, stop]; stop = the iteration left the loop
FeedStep(st) ==
    Bind(ParseFrame(st.z.parser), LAMBDA r :
    IF r.err
    THEN [st EXCEPT !.z = [st.z EXCEPT !.parser = CleanupBuffer(r.p)], !.stop = TRUE]
    ELSE IF Len(r.frame) = 0
    THEN [st EXCEPT !.z = [st.z EXCEPT !.parser = r.p], !.stop = TRUE]
    ELSE Bind(Dispatch([st.z EXCEPT !.parser = r.p], r.frame[1]), LAMBDA d :
         [z |-> d.z, err |-> d.err,
          log |-> Append(st.log, [frame |-> r.frame[1], state |-> st.z.state]),
          stop |-> d.err]))

\* iterations i..j of the parse loop
RECURSIVE FeedRun(_, _, _)
FeedRun(st, i, j) ==
    IF i > j \/ st.stop THEN st
    ELSE Bind(FeedStep(st), LAMBDA a : FeedRun(a, i + 1, j))

\* a parse loop that ends after ten iterations
FeedRunsShort(st, i) == FeedRun(st, i, i + 9)

\* iterations i..MaxIterations of the parse loop, ten at a time
RECURSIVE FeedRuns(_, _)
FeedRuns(st, i) ==
    IF i > MaxIterations \/ st.stop THEN st
    ELSE Bind(FeedRun(st, i, IF i + 9 < MaxIterations THEN i + 9 ELSE MaxIterations),
              LAMBDA a : FeedRuns(a, i + 10))

\* the parse loop of FeedData (zmodem.go:298-403, 409-505):
\* [z, err, log]; log lists the frames dispatched, each with the engine state
\* it was dispatched in
FeedLoop(z, iteration, log) ==
    Bind(FeedRuns([z |-> z, err |-> FALSE, log |-> log, stop |-> FALSE], iteration),
         LAMBDA a : [z |-> a.z, err |-> a.err, log |-> a.log])

FeedData(z, data) ==
    Bind([z EXCEPT !.inputLen = @ + Len(data), !.parser = AddData(z.parser, data)],
         LAMBDA y : FeedLoop(y, 1, << >>))

ChunkSize == 1024

Min(a, b) == IF a < b THEN a ELSE b

\* GetOutputData with a buffer of bufLen bytes: [z, out]
\* (the read error of the file is not modelled: the local file is readable)
\* a read of the outbound queue that hands out the first bytes and forgets
\* the rest
ReadOutputBufOnce(z, bufLen) ==
    [z |-> [z EXCEPT !.outputBuf = << >>],
     out |-> SubSeq(z.outputBuf, 1, Min(bufLen, Len(z.outputBuf)))]

\* bytes.Buffer.Read on outputBuf: [z, out]
ReadOutputBuf(z, bufLen) ==
    [z |-> [z EXCEPT !.outputBuf = Drop(@, Min(bufLen, Len(@)))],
     out |-> SubSeq(z.outputBuf, 1, Min(bufLen, Len(z.outputBuf)))]

\* the sending of a chunk that counts the bytes only of a frame it returns
\* whole
SendFileChunkUncounted(z, bufLen, n, zdataFrame) ==
    IF bufLen < Len(zdataFrame)
    THEN [z |-> [z EXCEPT !.outputBuf = Drop(zdataFrame, bufLen), !.readPos = @ + n],
          out |-> SubSeq(zdataFrame, 1, bufLen)]
    ELSE [z |-> [z EXCEPT !.readPos = @ + n, !.transferred = @ + n],
          out |-> zdataFrame]

\* GetOutputData after a read of n > 0 file bytes (zmodem.go:545-578)
SendFileChunk(z, bufLen, n, zdataFrame) ==
    IF bufLen < Len(zdataFrame)
    THEN ReadOutputBuf([z EXCEPT !.outputBuf = @ \o zdataFrame,
                                 !.readPos = @ + n,
                                 !.transferred = @ + n], bufLen)
    ELSE [z |-> [z EXCEPT !.readPos = @ + n, !.transferred = @ + n],
          out |-> zdataFrame]

GetOutputData(z, bufLen) ==
    IF Len(z.outputBuf) > 0 /\ bufLen > 0
    THEN ReadOutputBuf(z, bufLen)
    ELSE IF z.mode = ModeUpload /\ z.fileOpen /\ z.state = "sending_data"
    THEN IF Len(z.content) > z.readPos
         THEN SendFileChunk(z, bufLen, Min(ChunkSize, Len(z.content) - z.readPos),
                            BuildZDATAFrame(SubSeq(z.content, z.readPos + 1,
                                                   z.readPos + Min(ChunkSize, Len(z.content) - z.readPos)),
                                            z.transferred))
         ELSE IF Len(z.outputBuf) = 0
         THEN [z |-> [z EXCEPT !.outputBuf = BuildZEOFFrame(z.transferred),
                               !.state = "sending_eof"],
               out |-> << >>]
         ELSE [z |-> z, out |-> << >>]
    ELSE [z |-> z, out |-> << >>]

(***************************************************************************)
(* session.go: the session registry; main.go: the C API                    *)
(* The registry (sessionManager) is [sessions, nextID]; sessions maps the  *)
(* ids in use to Session records [ID, Mode, Status, ErrorMsg, Progress,    *)
(* impl].  Each API operator takes the registry and returns the new one    *)
(* with the call's result.                                                 *)
(***************************************************************************)
StatusIdle == 0
StatusActive == 1
StatusCompleted == 2
StatusError == 3

NewRegistry == [sessions |-> << >>, nextID |-> 1]

HasSession(R, id) == id \in DOMAIN R.sessions

\* NewSession: the registry with the new session, whose id is R.nextID
NewSession(R, mode, impl) ==
    [sessions |-> [i \in (DOMAIN R.sessions) \cup {R.nextID} |->
                      IF i = R.nextID
                      THEN [ID |-> R.nextID, Mode |-> mode, Status |-> StatusIdle,
                            ErrorMsg |-> "", Progress |-> [Transferred |-> 0, Total |-> 0],
                            impl |-> impl]
                      ELSE R.sessions[i]],
     nextID |-> R.nextID + 1]

\* a RemoveSession that deletes nothing
RemoveSessionKeeps(R, id) == R

RemoveSession(R, id) ==
    [R EXCEPT !.sessions = [i \in (DOMAIN R.sessions) \ {id} |-> R.sessions[i]]]

UpdateProgress(s, transferred, total) ==
    [s EXCEPT !.Progress = [Transferred |-> transferred, Total |-> total]]

SetStatus(s, status) == [s EXCEPT !.Status = status]

SetError(s, msg) == [s EXCEPT !.Status = StatusError, !.ErrorMsg = msg]

\* ZmodemInit: [R, id]; id = -1 when the file cannot be opened (openOk = FALSE)
ZmodemInit(R, mode, content, openOk) ==
    IF ~openOk THEN [R |-> R, id |-> -1]
    ELSE [R |-> NewSession(R, mode, NewZmodemImpl(mode, content)), id |-> R.nextID]

\* ZmodemFeedData: [R, ret, log]
ZmodemFeedData(R, id, data) ==
    IF ~HasSession(R, id) THEN [R |-> R, ret |-> -1, log |-> << >>]
    ELSE Bind(FeedData(R.sessions[id].impl, data), LAMBDA f :
         IF f.err
         THEN [R |-> [R EXCEPT !.sessions[id] = SetError([@ EXCEPT !.impl = f.z], "rejected")],
               ret |-> -1, log |-> f.log]
         ELSE [R |-> [R EXCEPT !.sessions[id] =
                          SetStatus(UpdateProgress([@ EXCEPT !.impl = f.z],
                                                   f.z.transferred, f.z.fileSize),
                                    StatusActive)],
               ret |-> 0, log |-> f.log])

\* ZmodemGetOutputData: [R, out]; out = << >> stands for a return of 0
ZmodemGetOutputData(R, id, bufLen) ==
    IF ~HasSession(R, id) THEN [R |-> R, out |-> << >>]
    ELSE Bind(GetOutputData(R.sessions[id].impl, bufLen), LAMBDA g :
         [R |-> [R EXCEPT !.sessions[id] =
                     IF Len(g.out) > 0
                     THEN UpdateProgress([@ EXCEPT !.impl = g.z],
                                         g.z.transferred, g.z.fileSize)
                     ELSE [@ EXCEPT !.impl = g.z]],
          out |-> g.out])

\* ZmodemGetProgress: [R, ok, transferred, total]
ZmodemGetProgress(R, id) ==
    IF ~HasSession(R, id) THEN [R |-> R, ok |-> FALSE, transferred |-> 0, total |-> 0]
    ELSE LET s == R.sessions[id]
         IN  [R |-> [R EXCEPT !.sessions[id] =
                         UpdateProgress(s, s.impl.transferred, s.impl.fileSize)],
              ok |-> TRUE, transferred |-> s.impl.transferred, total |-> s.impl.fileSize]

\* the status ZmodemGetStatus derives from the engine (main.go:254-280)
\* the status derivation that reports completed for every engine that has
\* left idle
DerivedStatusEager(s) ==
    IF s.Status = StatusError THEN StatusError
    ELSE IF s.impl.state = "idle" THEN StatusIdle
    ELSE StatusCompleted

DerivedStatus(s) ==
    IF s.Status = StatusError THEN StatusError
    ELSE IF s.impl.state = "completed" THEN StatusCompleted
    ELSE IF s.impl.state = "idle" THEN StatusIdle
    ELSE IF s.impl.state = "sending_eof"
    THEN IF s.impl.fileSize > 0 /\ s.impl.transferred >= s.impl.fileSize
         THEN StatusCompleted ELSE StatusActive
    ELSE StatusActive

\* ZmodemGetStatus: [R, status, message]; status = -1 stands for a nil result
ZmodemGetStatus(R, id) ==
    IF ~HasSession(R, id) THEN [R |-> R, status |-> -1, message |-> ""]
    ELSE LET s == R.sessions[id]
         IN  [R |-> [R EXCEPT !.sessions[id] = SetStatus(s, DerivedStatus(s))],
              status |-> DerivedStatus(s), message |-> s.ErrorMsg]

\* the engine of session id as ZmodemCleanup leaves it (main.go:315-318)
ClosedImpl(R, id) == Close(R.sessions[id].impl)

\* a ZmodemCleanup that empties the registry
ZmodemCleanupAll(R, id) ==
    IF ~HasSession(R, id) THEN R
    ELSE [R EXCEPT !.sessions = << >>]

\* ZmodemCleanup
ZmodemCleanup(R, id) ==
    IF ~HasSession(R, id) THEN R
    ELSE RemoveSession([R EXCEPT !.sessions[id].impl = ClosedImpl(R, id)], id)

(***************************************************************************)
(* State                                                                   *)
(***************************************************************************)
VARIABLES
    \* codec harness: one frame is built and delivered to a fresh parser
    cin,        \* the frame given to BuildBinaryFrame
    cwire,      \* the bytes BuildBinaryFrame returned
    cp,         \* the FrameParser
    cfed,       \* number of bytes of cwire delivered so far
    cout,       \* the frames ParseFrame has returned, in order
    cerr,       \* number of ParseFrame calls that returned an error
    cmode,      \* "start", "whole" (one AddData) or "bytes" (one byte per AddData)
    \* the Go library
    reg,        \* the session registry (sessionManager) with every engine
    \* engine harness: what the caller of the C API has seen
    efed,       \* number of ZmodemFeedData calls made
    ehist,      \* the latest two ZmodemFeedData calls: chunk, engine state and
                \* session status before the call
    elog,       \* the frames the latest ZmodemFeedData dispatched, with the
                \* state each met
    edisp,      \* every (frame type, state) pair dispatched so far
    eret,       \* return value of the latest ZmodemFeedData
    eout,       \* the bytes ZmodemGetOutputData has returned, in order
    estatus,    \* the statuses ZmodemGetStatus has returned
    evisited,   \* the engine states the session has been in
    \* the Electron main process: one SSH channel and its ZMODEM managers
    ssh,        \* the SSHSession: present, zmodemState, zmodemBuffer, zmodemManager
    mgrs,       \* every ZMODEMManager created for the channel, in creation order
    imports,    \* the import('./ZMODEMManager') promises not yet settled
    nrecv,      \* number of inbound chunks delivered
    hterm,      \* the 'data' events emitted to the terminal
    hwire,      \* the writes made to the channel
    hipc,       \* the complete / error notifications sent to the renderer
    hfed,       \* the chunks passed to ZmodemFeedData since the handshake
    harrived,   \* the chunks that arrived since the handshake
    hpoll,      \* the status the latest handler read from ZmodemGetStatus, or -1
    \* the sniffer on its own
    nbuf,       \* zmodemBuffer
    nchunks,    \* the chunks given to detectZMODEMSequence, in order
    nres,       \* what each call returned: "none", "upload" or "download"
    \* the peer of a transfer that runs as the protocol lays down
    peer,       \* the file the transfer carries and the number of frames sent
    \* goroutines calling the methods of one ZmodemImpl
    mu,         \* the holder of z.mu, or "free"
    tpc,        \* where each goroutine stands in its call
    tcall,      \* the call each goroutine is making, with its local variables
    tcalls,     \* number of calls started
    zref        \* the engine after the calls made so far, run one after another
                \* in the order they took the lock

codecVars == << cin, cwire, cp, cfed, cout, cerr, cmode >>

engineVars == << reg, efed, ehist, elog, edisp, eret, eout, estatus, evisited >>

channelVars == << ssh, mgrs, imports, nrecv, hterm, hwire, hipc, hfed, harrived, hpoll >>

sniffVars == << nbuf, nchunks, nres >>

peerVars == << peer >>

lockVars == << mu, tpc, tcall, tcalls, zref >>

vars == << cin, cwire, cp, cfed, cout, cerr, cmode,
           reg, efed, ehist, elog, edisp, eret, eout, estatus, evisited,
           ssh, mgrs, imports, nrecv, hterm, hwire, hipc, hfed, harrived, hpoll,
           nbuf, nchunks, nres, peer, mu, tpc, tcall, tcalls, zref >>

\* the harnesses at rest
CodecIdle ==
    /\ cin = [type |-> 0, flags |-> ZeroFlags, aux |-> ZeroFlags, data |-> << >>,
              useCRC32 |-> TRUE]
    /\ cwire = << >>
    /\ cp = NewFrameParser
    /\ cfed = 0
    /\ cout = << >>
    /\ cerr = 0
    /\ cmode = "off"

NoManager == 0

NewSSHSession ==
    [present |-> TRUE, zmodemState |-> "normal", zmodemBuffer |-> << >>,
     zmodemManager |-> NoManager]

ChannelIdle ==
    /\ ssh = NewSSHSession
    /\ mgrs = << >>
    /\ imports = << >>
    /\ nrecv = 0
    /\ hterm = << >>
    /\ hwire = << >>
    /\ hipc = << >>
    /\ hfed = << >>
    /\ harrived = << >>
    /\ hpoll = -1

SniffIdle ==
    /\ nbuf = << >>
    /\ nchunks = << >>
    /\ nres = << >>

NoPeer == [file |-> << >>, sent |-> 0]

PeerIdle == peer = NoPeer

Threads == { "feeder", "poller", "reader" }

NoCall == [op |-> "none", data |-> << >>, n |-> 0, more |-> FALSE]

LockIdle ==
    /\ mu = "free"
    /\ tpc = [t \in Threads |-> "idle"]
    /\ tcall = [t \in Threads |-> NoCall]
    /\ tcalls = 0
    /\ zref = << >>

EngineIdle ==
    /\ reg = NewRegistry
    /\ efed = 0
    /\ ehist = << >>
    /\ elog = << >>
    /\ edisp = { }
    /\ eret = 0
    /\ eout = << >>
    /\ estatus = { }
    /\ evisited = { }

(***************************************************************************)
(* Codec harness: BuildBinaryFrame, then AddData / ParseFrame              *)
(***************************************************************************)
MaxPayload == 2

\* payload bytes: NUL, the escape byte, '@' (escaped), 'A' (plain)
CodecBytes == { 0, ZDLE, ChAt, 65 }

RECURSIVE SeqsUpTo(_, _)
SeqsUpTo(S, n) ==
    IF n = 0 THEN { << >> }
    ELSE Bind(SeqsUpTo(S, n - 1), LAMBDA shorter :
         shorter \cup { Append(q, b) : q \in { r \in shorter : Len(r) = n - 1 }, b \in S })

CodecTypes == { FrameZRINIT, FrameZACK, FrameZFILE, FrameZDATA }
CodecFlags == { ZeroFlags, << 0, 0, 1, 65 >>, << 0, 0, 0, ZDLE >> }
CodecAux == { ZeroFlags, << 1, 2, 3, 4 >> }

CodecInputs ==
    [ type : CodecTypes, flags : CodecFlags, aux : CodecAux,
      data : SeqsUpTo(CodecBytes, MaxPayload), useCRC32 : BOOLEAN ]

Encode(f) ==
    BuildBinaryFrame(f.type, f.flags, f.aux[1], f.aux[2], f.aux[3], f.aux[4],
                     f.data, f.useCRC32)

CodecInit ==
    /\ cin \in CodecInputs
    /\ cwire = Encode(cin)
    /\ cp = NewFrameParser
    /\ cfed = 0
    /\ cout = << >>
    /\ cerr = 0
    /\ cmode = "start"
    /\ EngineIdle
    /\ ChannelIdle
    /\ SniffIdle
    /\ PeerIdle
    /\ LockIdle

\* the whole frame in one AddData, then one ParseFrame
FeedWhole ==
    /\ cmode = "start"
    /\ \E r \in { ParseFrame(AddData(cp, cwire)) } :
           /\ cp' = r.p
           /\ cout' = cout \o r.frame
           /\ cerr' = cerr + (IF r.err THEN 1 ELSE 0)
    /\ cfed' = Len(cwire)
    /\ cmode' = "whole"
    /\ UNCHANGED << cin, cwire >>
    /\ UNCHANGED << engineVars, channelVars, sniffVars, peerVars, lockVars >>

\* the next byte of the frame in an AddData of its own, then one ParseFrame
FeedByte ==
    /\ cmode \in { "start", "bytes" }
    /\ cfed < Len(cwire)
    /\ \E r \in { ParseFrame(AddData(cp, << cwire[cfed + 1] >>)) } :
           /\ cp' = r.p
           /\ cout' = cout \o r.frame
           /\ cerr' = cerr + (IF r.err THEN 1 ELSE 0)
    /\ cfed' = cfed + 1
    /\ cmode' = "bytes"
    /\ UNCHANGED << cin, cwire >>
    /\ UNCHANGED << engineVars, channelVars, sniffVars, peerVars, lockVars >>

CodecNext == FeedWhole \/ FeedByte

SpecCodec == CodecInit /\ [][CodecNext]_vars

\* what the parser is to return for the frame f
SameFrame(d, f) ==
    /\ d.Type = f.type
    /\ d.Flags = f.flags
    /\ << d.F0, d.F1, d.F2, d.F3 >> = f.aux
    /\ d.Data = f.data

\* C1: parsing the bytes of BuildBinaryFrame returns one frame equal to the
\* original in type, flags, auxiliary bytes and payload, and consumes exactly
\* the encoded bytes -- for every frame type, flags, auxiliary bytes, payload.
C1_RoundTrip ==
    cmode = "whole" =>
        /\ cerr = 0
        /\ Len(cout) = 1
        /\ SameFrame(cout[1], cin)
        /\ Len(cp.buffer) = 0

\* the result of delivering the bytes w to a fresh parser in a single call
WholeDecode(w) == ParseFrame(AddData(NewFrameParser, w))

\* the built frame is one the parser decodes when it is delivered whole
DecodesWhole ==
    \E r \in { WholeDecode(cwire) } :
        /\ ~r.err
        /\ Len(r.frame) = 1
        /\ SameFrame(r.frame[1], cin)
        /\ Len(r.p.buffer) = 0

\* C2: a frame that decodes when delivered whole decodes to the same frames
\* when delivered one byte per AddData/ParseFrame call; no call on a strict
\* prefix returns an error or a frame.
C2_FragmentationIndependent ==
    (cmode = "bytes" /\ DecodesWhole) =>
        /\ cerr = 0
        /\ IF cfed < Len(cwire)
           THEN cout = << >>
           ELSE cout = WholeDecode(cwire).frame

\* the frame of cin with the escaping rule applied to the flags, the
\* auxiliary bytes and the payload alike, before the checksum
EscapedBody(f) ==
    << ZPAD, ZPAD, ZDLE, (IF f.useCRC32 THEN ZBIN32 ELSE ZBIN), f.type >>
      \o EscapeData(f.flags, 1) \o EscapeData(f.aux, 1)
      \o (IF Len(f.data) > 0 THEN EscapeData(f.data, 1) \o << ZDLE, ZCRCE >> ELSE << >>)

\* C24: in the frame BuildBinaryFrame produces, every flags, auxiliary and
\* payload byte of the special set is on the wire as ZDLE followed by the
\* byte XOR 0x40 (so no bare ZDLE lies inside the header or the payload),
\* and the trailing checksum of 4 or 2 bytes is the checksum of all bytes
\* after the two pad bytes.
C24_EncoderEscapesAndChecksums ==
    cwire = WithCRC(EscapedBody(cin), cin.useCRC32)

\* the same for the frames whose flags and auxiliary bytes hold no byte of
\* the special set
PlainHeaderEncoded ==
    (\A i \in 1..4 : ~NeedsEscape(cin.flags[i]) /\ ~NeedsEscape(cin.aux[i]))
        => C24_EncoderEscapesAndChecksums

(***************************************************************************)
(* Split harness: the bytes of one built frame reach a fresh parser in two *)
(* chunks, cut at any place: AddData / ParseFrame on the first k bytes,    *)
(* then AddData / ParseFrame on the rest.                                  *)
(***************************************************************************)
\* the first k bytes of the frame, then one ParseFrame
FeedPart(k) ==
    /\ cmode = "start"
    /\ k < Len(cwire)
    /\ \E r \in { ParseFrame(AddData(cp, SubSeq(cwire, 1, k))) } :
           /\ cp' = r.p
           /\ cout' = cout \o r.frame
           /\ cerr' = cerr + (IF r.err THEN 1 ELSE 0)
    /\ cfed' = k
    /\ cmode' = "part"
    /\ UNCHANGED << cin, cwire >>
    /\ UNCHANGED << engineVars, channelVars, sniffVars, peerVars, lockVars >>

\* the rest of the frame, then one ParseFrame
FeedRest ==
    /\ cmode = "part"
    /\ \E r \in { ParseFrame(AddData(cp, Drop(cwire, cfed))) } :
           /\ cp' = r.p
           /\ cout' = cout \o r.frame
           /\ cerr' = cerr + (IF r.err THEN 1 ELSE 0)
    /\ cfed' = Len(cwire)
    /\ cmode' = "rest"
    /\ UNCHANGED << cin, cwire >>
    /\ UNCHANGED << engineVars, channelVars, sniffVars, peerVars, lockVars >>

\* the longest frame the codec inputs build: every payload byte escaped
MaxWire == 13 + 2 * MaxPayload + 2 + 4

SplitNext ==
    \/ \E k \in 1..MaxWire : FeedPart(k)
    \/ FeedRest

SpecSplit == CodecInit /\ [][SplitNext]_vars

\* the number of bytes of cwire up to and including the end-of-subpacket
\* marker ZDLE ZCRCE that BuildBinaryFrame puts after a non-empty payload
MarkerEnd == Len(cwire) - CrcSize(IF cin.useCRC32 THEN ZBIN32 ELSE ZBIN)

\* C22: for a built data frame with a payload, the parser returns a ZDATA
\* frame only once the end-of-subpacket marker has been delivered to it, and
\* the payload of the frame it returns is the payload that was encoded:
\* never a truncated prefix.
C22_DataFrameOnlyAfterMarker ==
    (cin.type = FrameZDATA /\ cin.data # << >>) =>
        \A i \in 1..Len(cout) :
            cout[i].Type = FrameZDATA =>
                (cfed >= MarkerEnd /\ cout[i].Data = cin.data)

(***************************************************************************)
(* Stray harness: bytes that hold no frame reach a fresh parser before the *)
(* built frame, in the same AddData as the frame or in one of their own.   *)
(***************************************************************************)
\* stray terminal output: "zz", "z*" and "z**"
Strays == { << 122, 122 >>, << 122, ZPAD >>, << 122, ZPAD, ZPAD >> }

\* the stray bytes in an AddData of their own, then one ParseFrame
FeedStray(g) ==
    /\ cmode = "start"
    /\ \E r \in { ParseFrame(AddData(cp, g)) } :
           /\ cp' = r.p
           /\ cout' = cout \o r.frame
           /\ cerr' = cerr + (IF r.err THEN 1 ELSE 0)
    /\ cmode' = "stray"
    /\ UNCHANGED << cin, cwire, cfed >>
    /\ UNCHANGED << engineVars, channelVars, sniffVars, peerVars, lockVars >>

\* the frame after the stray bytes, then one ParseFrame
FeedFrame ==
    /\ cmode = "stray"
    /\ \E r \in { ParseFrame(AddData(cp, cwire)) } :
           /\ cp' = r.p
           /\ cout' = cout \o r.frame
           /\ cerr' = cerr + (IF r.err THEN 1 ELSE 0)
    /\ cfed' = Len(cwire)
    /\ cmode' = "after"
    /\ UNCHANGED << cin, cwire >>
    /\ UNCHANGED << engineVars, channelVars, sniffVars, peerVars, lockVars >>

\* the stray bytes and the frame in one AddData, then one ParseFrame
FeedStrayFrame(g) ==
    /\ cmode = "start"
    /\ \E r \in { ParseFrame(AddData(cp, g \o cwire)) } :
           /\ cp' = r.p
           /\ cout' = cout \o r.frame
           /\ cerr' = cerr + (IF r.err THEN 1 ELSE 0)
    /\ cfed' = Len(cwire)
    /\ cmode' = "after"
    /\ UNCHANGED << cin, cwire >>
    /\ UNCHANGED << engineVars, channelVars, sniffVars, peerVars, lockVars >>

StrayNext ==
    \/ \E g \in Strays : FeedStray(g)
    \/ FeedFrame
    \/ \E g \in Strays : FeedStrayFrame(g)

SpecStray == CodecInit /\ [][StrayNext]_vars

\* C25: a parser that is fed bytes holding no frame and then the built
\* frame returns the frames it returns for the built frame alone, without
\* an error: also when the stray bytes end in one or more pad bytes.
C25_StrayBytesSkipped ==
    /\ cmode = "stray" => (cout = << >> /\ cerr = 0)
    /\ cmode = "after" => (cout = WholeDecode(cwire).frame /\ cerr = 0)

(***************************************************************************)
(* Header harness: headers that carry one of two type bytes are decoded,   *)
(* each by a parser of its own (NewFrameParser, AddData, one ParseFrame),  *)
(* each as an ASCII-hex header (the layout of the header rz sends,         *)
(* frame.go:326-328) or as a binary header with a 16-bit or a 32-bit       *)
(* checksum (the layout of BuildBinaryFrame).                              *)
(***************************************************************************)
MaxHeaders == 2

\* the type bytes of the FrameType constants (frame.go:35-56)
WireTypes == 0..19

HeaderFormats == { ZHEX, ZBIN, ZBIN32 }

\* the flags of rz's ZRINIT: CANFDX | CANOVIO | CANFC32
HeaderFlags == << 0, 0, 0, 35 >>

\* the lower-case hex digit of a nibble
HexDigit(n) == IF n < 10 THEN 48 + n ELSE 87 + n

RECURSIVE HexOf(_)
HexOf(bytes) ==
    IF bytes = << >> THEN << >>
    ELSE << HexDigit(Head(bytes) \div 16), HexDigit(Head(bytes) % 16) >> \o HexOf(Tail(bytes))

\* the ASCII-hex header of type byte b as the peer sends it: type, flags and
\* their CRC-16 in hex digits, then CR, LF with the high bit set, XON
HexHeader(b, flags) ==
    << ZPAD, ZPAD, ZDLE, ChB >>
      \o HexOf(<< b >> \o flags)
      \o Bind(CalculateCRC16(<< b >> \o flags), LAMBDA c : HexOf(<< c \div 256, c % 256 >>))
      \o << ChCR, 138, 17 >>

\* the header of type byte b in the format fmt
HeaderBytes(b, fmt) ==
    IF fmt = ZHEX THEN HexHeader(b, HeaderFlags)
    ELSE BuildBinaryFrame(b, HeaderFlags, 0, 0, 0, 0, << >>, fmt = ZBIN32)

HeaderInit ==
    /\ cin \in { c \in [ first : WireTypes, second : WireTypes ] : c.first <= c.second }
    /\ cwire = << >>
    /\ cp = NewFrameParser
    /\ cfed = 0
    /\ cout = << >>
    /\ cerr = 0
    /\ cmode = "headers"
    /\ EngineIdle
    /\ ChannelIdle
    /\ SniffIdle
    /\ PeerIdle
    /\ LockIdle

\* a header of type byte b in the format fmt reaches a new parser: AddData,
\* then one ParseFrame
Header(b, fmt) ==
    /\ cfed < MaxHeaders
    /\ cwire' = HeaderBytes(b, fmt)
    /\ \E r \in { ParseFrame(AddData(NewFrameParser, HeaderBytes(b, fmt))) } :
           /\ cp' = r.p
           /\ cout' = Append(cout, [byte |-> b, format |-> fmt, frame |-> r.frame])
           /\ cerr' = cerr + (IF r.err THEN 1 ELSE 0)
    /\ cfed' = cfed + 1
    /\ UNCHANGED << cin, cmode >>
    /\ UNCHANGED << engineVars, channelVars, sniffVars, peerVars, lockVars >>

HeaderNext ==
    \/ \E fmt \in HeaderFormats : Header(cin.first, fmt)
    \/ \E fmt \in HeaderFormats : Header(cin.second, fmt)

SpecHeader == HeaderInit /\ [][HeaderNext]_vars

\* the headers that were decoded to a frame
Decoded == { i \in 1..Len(cout) : cout[i].frame # << >> }

TypeOf(i) == cout[i].frame[1].Type

\* one type byte decodes to one frame type, whatever the format of the header
SameByteSameType ==
    \A i, j \in Decoded : cout[i].byte = cout[j].byte => TypeOf(i) = TypeOf(j)

\* two type bytes do not decode to one frame type
TwoBytesTwoTypes ==
    \A i, j \in Decoded : cout[i].byte # cout[j].byte => TypeOf(i) # TypeOf(j)

\* C39: a type byte decodes to the same frame type in an ASCII-hex header
\* and in a binary header, and two different type bytes never decode to the
\* same frame type.
C39_TypeDecodingConsistent == SameByteSameType /\ TwoBytesTwoTypes

\* a binary header decodes to the frame type that is its type byte
BinaryTypeIsByte ==
    \A i \in Decoded : cout[i].format # ZHEX => TypeOf(i) = cout[i].byte

\* so does an ASCII-hex header of any type byte but 0x01
HexTypeIsByteButOne ==
    \A i \in Decoded : (cout[i].format = ZHEX /\ cout[i].byte # 1) => TypeOf(i) = cout[i].byte

\* every ASCII-hex header is decoded to a frame without an error
HexHeadersDecoded ==
    \A i \in 1..Len(cout) : cout[i].format = ZHEX => (cout[i].frame # << >> /\ cerr = 0)

(***************************************************************************)
(* Engine harness: one session of the C API, driven call by call           *)
(***************************************************************************)
MaxFile == 2
MaxFeeds == 2

\* the bytes of the local file of an upload: 'A', the escape byte, '@', NUL, ...
FilePattern == << 65, ZDLE, ChAt, 0 >>
FileOf(n) == [i \in 1..n |-> FilePattern[((i - 1) % 4) + 1]]

\* the buffer size ZMODEMManager passes to zmodemGetOutputData
OutputBufferSize == 8192

Repeat(b, n) == [i \in 1..n |-> b]

EndsWith(chunk, pre) ==
    Len(chunk) >= Len(pre) /\ SubSeq(chunk, Len(chunk) - Len(pre) + 1, Len(chunk)) = pre

StartsWith(chunk, suf) ==
    Len(chunk) >= Len(suf) /\ SubSeq(chunk, 1, Len(suf)) = suf

\* the hex ZRINIT header rz sends (frame.go:326-328): "**\x18B0100000023be50\r\x8a\x11"
HexZRINIT ==
    << 42, 42, 24, 66, 48, 49, 48, 48, 48, 48, 48, 48, 50, 51, 98, 101, 53, 48,
       13, 138, 17 >>
PeerZACK == BuildZACKFrame(0)
PeerZRPOS == BuildZRPOSFrame(0)
PeerZNAK == BuildBinaryFrame(FrameZNAK, ZeroFlags, 0, 0, 0, 0, << >>, TRUE)
PeerZFILE == BuildZFILEFrameBinary(<< 98 >>, 1)
PeerZDATA == BuildZDATAFrame(<< 65 >>, 0)
PeerZEOF == BuildZEOFFrame(1)
PeerZFIN == BuildZFINFrame

\* 20-byte sequences that are no frame
GarbagePlain == Repeat(122, 20)
GarbagePad == Repeat(122, 19) \o << ZPAD >>
GarbageHex == << ZPAD, ZPAD, ZDLE, ChB, 49, 50 >> \o Repeat(122, 14)
Garbage == { GarbagePad, GarbageHex }

\* the frames a peer sends that each mode acts on, with the type they decode to
UploadFrames == { HexZRINIT, PeerZACK, PeerZRPOS }
DownloadFrames == { PeerZFILE, PeerZDATA, PeerZEOF, PeerZFIN }
FrameTypeOf(w) ==
    IF w = HexZRINIT THEN FrameZRINIT
    ELSE IF w = PeerZACK THEN FrameZACK
    ELSE IF w = PeerZRPOS THEN FrameZRPOS
    ELSE IF w = PeerZFILE THEN FrameZFILE
    ELSE IF w = PeerZDATA THEN FrameZDATA
    ELSE IF w = PeerZEOF THEN FrameZEOF
    ELSE IF w = PeerZFIN THEN FrameZFIN
    ELSE FrameZNAK

ValidFrames(mode) == IF mode = ModeUpload THEN UploadFrames ELSE DownloadFrames

\* chunks the decoder fails on: a binary header that ends after its type
\* byte, and a hex header with an odd number of digits
CutHeader == SubSeq(PeerZACK, 1, 5)
OddHex == << ZPAD, ZPAD, ZDLE, ChB >> \o Repeat(48, 11)
Undecodable == { CutHeader, OddHex }

\* frames only a sender sends
SenderFrames == { PeerZFILE, PeerZEOF }

\* what a peer may deliver in one chunk: to an upload also frames only a
\* sender sends and a broken hex header, as a receiver sends its headers
EngineChunks(mode) ==
    ValidFrames(mode) \cup { PeerZNAK, GarbagePad, GarbageHex, CutHeader }
      \cup (IF mode = ModeUpload
            THEN { GarbagePlain \o PeerZACK, OddHex } \cup SenderFrames
            ELSE { GarbagePlain \o PeerZDATA })

\* the session the harness drives
TheId == 1
TheSession == reg.sessions[TheId]
Live == HasSession(reg, TheId)

EngineInit ==
    /\ CodecIdle
    /\ ChannelIdle
    /\ SniffIdle
    /\ PeerIdle
    /\ LockIdle
    /\ \E mode \in { ModeUpload, ModeDownload } :
       \E n \in 0..MaxFile :
          /\ (mode = ModeDownload => n = 0)
          /\ reg = ZmodemInit(NewRegistry, mode, FileOf(n), TRUE).R
    /\ efed = 0
    /\ ehist = << >>
    /\ elog = << >>
    /\ edisp = { }
    /\ eret = 0
    /\ eout = << >>
    /\ estatus = { }
    /\ evisited = { reg.sessions[TheId].impl.state }

Visit(R) == IF HasSession(R, TheId) THEN { R.sessions[TheId].impl.state } ELSE { }

LogEntries(log) == { [Type |-> log[i].frame.Type, state |-> log[i].state] : i \in 1..Len(log) }

\* one ZmodemFeedData call with what its caller sees of it
FeedCall(chunk) ==
    /\ \E r \in { ZmodemFeedData(reg, TheId, chunk) } :
           /\ reg' = r.R
           /\ elog' = [i \in 1..Len(r.log) |->
                          [Type |-> r.log[i].frame.Type, state |-> r.log[i].state]]
           /\ edisp' = edisp \cup LogEntries(r.log)
           /\ eret' = r.ret
           /\ evisited' = evisited \cup Visit(r.R)
    /\ efed' = efed + 1
    /\ ehist' = (IF ehist = << >> THEN << >> ELSE << ehist[Len(ehist)] >>)
                  \o << [chunk |-> chunk, state |-> TheSession.impl.state,
                         status |-> TheSession.Status] >>
    /\ UNCHANGED << eout, estatus >>

EFeed(chunk) ==
    /\ Live
    /\ efed < MaxFeeds
    /\ FeedCall(chunk)
    /\ UNCHANGED << codecVars, channelVars, sniffVars, peerVars, lockVars >>

EPull ==
    /\ Live
    /\ \E r \in { ZmodemGetOutputData(reg, TheId, OutputBufferSize) } :
           /\ r.R # reg
           /\ reg' = r.R
           /\ eout' = eout \o r.out
           /\ evisited' = evisited \cup Visit(r.R)
    /\ UNCHANGED << efed, ehist, elog, edisp, eret, estatus >>
    /\ UNCHANGED << codecVars, channelVars, sniffVars, peerVars, lockVars >>

EStatus ==
    /\ Live
    /\ \E r \in { ZmodemGetStatus(reg, TheId) } :
           /\ reg' = r.R
           /\ estatus' = estatus \cup { r.status }
    /\ UNCHANGED << efed, ehist, elog, edisp, eret, eout, evisited >>
    /\ UNCHANGED << codecVars, channelVars, sniffVars, peerVars, lockVars >>

\* ZmodemGetProgress, when it changes the progress the session records
EProgress ==
    /\ Live
    /\ \E r \in { ZmodemGetProgress(reg, TheId) } :
           /\ r.R # reg
           /\ reg' = r.R
    /\ UNCHANGED << efed, ehist, elog, edisp, eret, eout, estatus, evisited >>
    /\ UNCHANGED << codecVars, channelVars, sniffVars, peerVars, lockVars >>

\* the caller releases the session and forgets what it saw of it
ECleanup ==
    /\ Live
    /\ reg' = ZmodemCleanup(reg, TheId)
    /\ efed' = 0
    /\ ehist' = << >>
    /\ elog' = << >>
    /\ edisp' = { }
    /\ eret' = 0
    /\ eout' = << >>
    /\ estatus' = { }
    /\ evisited' = { }
    /\ UNCHANGED << codecVars, channelVars, sniffVars, peerVars, lockVars >>

EngineNext ==
    \/ Live /\ \E chunk \in EngineChunks(TheSession.Mode) : EFeed(chunk)
    \/ EPull
    \/ EStatus
    \/ EProgress
    \/ ECleanup

SpecEngine == EngineInit /\ [][EngineNext]_vars

\* C8: an upload is completed, in the engine's state or in a status
\* ZmodemGetStatus has returned, only after a ZACK was dispatched while the
\* engine was in sending_eof.
AckInSendingEof == [Type |-> FrameZACK, state |-> "sending_eof"] \in edisp

C8_CompletedOnlyAfterAck ==
    (Live /\ TheSession.Mode = ModeUpload) =>
        ((TheSession.impl.state = "completed" \/ StatusCompleted \in estatus)
            => AckInSendingEof)

\* C9: the upload of an empty file never passes through sending_data.
C9_EmptyUploadSkipsData ==
    (Live /\ TheSession.Mode = ModeUpload /\ TheSession.impl.fileSize = 0) =>
        "sending_data" \notin evisited

\* C10: when a 20-byte garbage chunk is fed to a session whose transfer is
\* under way and a valid frame follows, the garbage does not fail the
\* session and the frame is decoded and dispatched.
Underway(h) == h.status # StatusError /\ h.state # "completed"

C10_ResyncAfterGarbage ==
    (/\ Live
     /\ Len(ehist) = 2
     /\ ehist[1].chunk \in Garbage
     /\ Underway(ehist[1])
     /\ ehist[2].chunk \in ValidFrames(TheSession.Mode)) =>
        /\ ehist[2].status # StatusError
        /\ eret = 0
        /\ elog # << >>
        /\ elog[Len(elog)].Type = FrameTypeOf(ehist[2].chunk)

\* C11: across every sequence of FeedData, GetOutputData and Close calls on
\* one session the value GetTransferred returns never decreases: each call
\* on a live session leaves it at least as large as before, and so does the
\* Close that ZmodemCleanup makes.
TransferredKept ==
    Live =>
        IF Live'
        THEN GetTransferred(TheSession.impl)' >= GetTransferred(TheSession.impl)
        ELSE GetTransferred(Close(TheSession.impl)) >= GetTransferred(TheSession.impl)

C11_TransferredMonotonic == [][TransferredKept]_vars

\* two data frames have been written by a download, or two bytes sent by an upload
C11_Witness == Live /\ GetTransferred(TheSession.impl) >= 2 /\ efed + Len(eout) >= 2

\* an id no session was ever given
UnknownId == 2

\* the file of the session is closed and the session gone once
\* ZmodemCleanup(id) has returned
CleanedUp(id) ==
    /\ ~HasSession(ZmodemCleanup(reg, id), id)
    /\ HasSession(reg, id) => ~ClosedImpl(reg, id).fileOpen
    /\ ZmodemCleanup(ZmodemCleanup(reg, id), id) = ZmodemCleanup(reg, id)

\* C15: ZmodemCleanup(id) called in any engine state, a second time for the
\* same id, or for an unknown id, returns normally, and after it the
\* session's file handle is closed and the id is not in the registry.
C15_CleanupTotal == CleanedUp(TheId) /\ CleanedUp(UnknownId)

\* the session has been cleaned up: a further call is a second call for
\* its id
C15_Witness == ~Live /\ reg.nextID = 2

\* a feed of the session has decoded a negative-ack or abort frame
NakDecoded == \E e \in edisp : e.Type \in { FrameZNAK, FrameZABORT }

\* C16: once a feed has decoded a negative-ack or abort frame the session's
\* status is error and stays error: after any later ZmodemFeedData,
\* ZmodemGetOutputData, ZmodemGetProgress and ZmodemGetStatus calls the
\* session holds StatusError and ZmodemGetStatus reports it.
C16_NakIsTerminal ==
    (Live /\ NakDecoded) =>
        /\ TheSession.Status = StatusError
        /\ ZmodemGetStatus(reg, TheId).status = StatusError

\* the upload session is as ZmodemInit made it: nothing fed, nothing pulled
NewlyCreated == Live /\ TheSession.Mode = ModeUpload /\ efed = 0 /\ eout = << >>

\* a new upload engine is in sending_header and its queue is one
\* file-header frame, with the name and the size of the file
StartsWithHeader ==
    NewlyCreated =>
        /\ TheSession.impl.state = "sending_header"
        /\ TheSession.impl.outputBuf
             = BuildZFILEFrameBinary(TheSession.impl.filename, Len(TheSession.impl.content))
        /\ ParseFrame(AddData(NewFrameParser, TheSession.impl.outputBuf)).frame[1].Type
             = FrameZFILE

\* the types an upload takes for the receiver's confirmation of the header
Confirmations == { FrameZRINIT, FrameZACK, FrameZRPOS }

\* the step is a feed that has decoded a confirmation in sending_header
DecodesConfirmation ==
    /\ efed' = efed + 1
    /\ \E i \in 1..Len(elog') :
          elog'[i].state = "sending_header" /\ elog'[i].Type \in Confirmations

\* the step is one of an upload engine in sending_header
InSendingHeader ==
    /\ Live
    /\ Live'
    /\ TheSession.Mode = ModeUpload
    /\ TheSession.impl.state = "sending_header"

\* the engine goes from sending_header to sending_data in exactly the
\* steps that decode a confirmation
MovesOnConfirmation ==
    InSendingHeader => (TheSession'.impl.state = "sending_data" <=> DecodesConfirmation)

\* C28: a new upload engine is in sending_header with exactly one
\* file-header frame queued, and it goes from sending_header to
\* sending_data when, and only when, it decodes a ZRINIT, ZACK or ZRPOS
\* frame: no other frame type and no pull causes the transition.
C28_UploadStart ==
    /\ [] StartsWithHeader
    /\ [][MovesOnConfirmation]_vars

\* a frame of another type was decoded in sending_header and left the
\* engine there; the ZRPOS fed next moved it to sending_data
C28_Witness ==
    /\ Live
    /\ TheSession.Mode = ModeUpload
    /\ TheSession.impl.state = "sending_data"
    /\ Len(ehist) = 2
    /\ ehist[1].chunk = PeerZFILE
    /\ [Type |-> FrameZFILE, state |-> "sending_header"] \in edisp
    /\ ehist[2].chunk = PeerZRPOS
    /\ ehist[2].state = "sending_header"
    /\ elog = << [Type |-> FrameZRPOS, state |-> "sending_header"] >>

\* the step is a feed to a download engine in receiving_header that has
\* decoded data frames and nothing else
DataBeforeHeader ==
    /\ Live
    /\ Live'
    /\ TheSession.Mode = ModeDownload
    /\ TheSession.impl.state = "receiving_header"
    /\ efed' = efed + 1
    /\ elog' # << >>
    /\ \A i \in 1..Len(elog') : elog'[i].Type = FrameZDATA

\* the state, the transferred count and the destination file are as before
DataIgnored ==
    /\ TheSession'.impl.state = TheSession.impl.state
    /\ TheSession'.impl.transferred = TheSession.impl.transferred
    /\ TheSession'.impl.content = TheSession.impl.content

\* C29: a data frame decoded while a download engine is still in
\* receiving_header, before any file header, leaves the state, the
\* transferred count and the destination file unchanged.
C29_EarlyDataIgnored == [][DataBeforeHeader => DataIgnored]_vars

\* the chunk of the step's feed
FeedChunk == ehist'[Len(ehist')].chunk

\* the step is a feed whose first ParseFrame returns an error
DecodeFails ==
    /\ Live
    /\ Live'
    /\ efed' = efed + 1
    /\ ParseFrame(AddData(TheSession.impl.parser, FeedChunk)).err

\* the call returns success and has dispatched nothing; the engine is as
\* before but for the bytes it was given, and its accumulator is empty
Contained ==
    /\ eret' = 0
    /\ elog' = << >>
    /\ TheSession'.impl.state = TheSession.impl.state
    /\ TheSession'.impl.transferred = TheSession.impl.transferred
    /\ TheSession'.impl.outputBuf = TheSession.impl.outputBuf
    /\ TheSession'.impl.content = TheSession.impl.content
    /\ TheSession'.impl.parser = NewFrameParser

WasCompleted == Live /\ Live' /\ TheSession.impl.state = "completed"

\* C35: once an engine's state is completed, no later FeedData or
\* GetOutputData call changes the state, writes to the file or changes
\* transferred, whatever frames are fed.
C35_CompletedAbsorbing ==
    [][WasCompleted =>
          /\ TheSession'.impl.state = "completed"
          /\ TheSession'.impl.content = TheSession.impl.content
          /\ TheSession'.impl.transferred = TheSession.impl.transferred]_vars

\* the places of buf where pat begins
Occurrences(buf, pat) ==
    { i \in 1..(Len(buf) - Len(pat) + 1) : SubSeq(buf, i, i + Len(pat) - 1) = pat }

\* everything the engine has placed in its outbound stream: what the caller
\* has pulled, then what is queued
Outbound == eout \o TheSession.impl.outputBuf

\* C36: the file-header frame is placed in the outbound stream exactly once
\* per upload session, for every ordering of output polls and inbound
\* ZRINIT frames.
C36_FileHeaderOnce ==
    (Live /\ TheSession.Mode = ModeUpload) =>
        Cardinality(Occurrences(Outbound,
                                BuildZFILEFrameBinary(TheSession.impl.filename,
                                                      TheSession.impl.fileSize))) = 1

(***************************************************************************)
(* Pair harness: two sessions of the registry, each driven through the C   *)
(* API by its own caller, in any interleaving                              *)
(***************************************************************************)
Ids == { 1, 2 }

PairInit ==
    /\ CodecIdle
    /\ ChannelIdle
    /\ SniffIdle
    /\ PeerIdle
    /\ LockIdle
    /\ \E m1 \in { ModeUpload, ModeDownload } :
       \E m2 \in { ModeUpload, ModeDownload } :
          reg = ZmodemInit(ZmodemInit(NewRegistry, m1, FileOf(MaxFile), TRUE).R,
                           m2, FileOf(1), TRUE).R
    /\ efed = 0
    /\ ehist = << >>
    /\ elog = << >>
    /\ edisp = { }
    /\ eret = 0
    /\ eout = << >>
    /\ estatus = { }
    /\ evisited = { }

pairRest == << codecVars, ehist, elog, edisp, eret, eout, estatus, evisited,
               channelVars, sniffVars, peerVars, lockVars >>

PFeed(id, chunk) ==
    /\ HasSession(reg, id)
    /\ efed < MaxFeeds
    /\ reg' = ZmodemFeedData(reg, id, chunk).R
    /\ efed' = efed + 1
    /\ UNCHANGED pairRest

PPull(id) ==
    /\ HasSession(reg, id)
    /\ reg' = ZmodemGetOutputData(reg, id, OutputBufferSize).R
    /\ reg' # reg
    /\ UNCHANGED << efed, pairRest >>

PProgress(id) ==
    /\ HasSession(reg, id)
    /\ reg' = ZmodemGetProgress(reg, id).R
    /\ reg' # reg
    /\ UNCHANGED << efed, pairRest >>

PStatus(id) ==
    /\ HasSession(reg, id)
    /\ reg' = ZmodemGetStatus(reg, id).R
    /\ reg' # reg
    /\ UNCHANGED << efed, pairRest >>

PCleanup(id) ==
    /\ HasSession(reg, id)
    /\ reg' = ZmodemCleanup(reg, id)
    /\ UNCHANGED << efed, pairRest >>

\* what the peer of a session may deliver in one chunk
PairChunks(mode) ==
    IF mode = ModeUpload THEN { HexZRINIT, PeerZNAK } ELSE { PeerZDATA, PeerZEOF }

\* some operation on session id
OpOn(id) ==
    \/ \E chunk \in PairChunks(reg.sessions[id].Mode) : PFeed(id, chunk)
    \/ PPull(id)
    \/ PProgress(id)
    \/ PStatus(id)
    \/ PCleanup(id)

PairNext == \E id \in Ids : HasSession(reg, id) /\ OpOn(id)

SpecPair == PairInit /\ [][PairNext]_vars

\* session j is what it was: parser buffer, outbound queue, state,
\* transferred count and file handle
Untouched(j) ==
    HasSession(reg, j) => (HasSession(reg', j) /\ reg'.sessions[j] = reg.sessions[j])

\* C14: any feed, pull, progress, status or cleanup operation on one session
\* leaves every session with another id unchanged, under every interleaving.
Isolated ==
    \A id \in Ids : \A j \in Ids \ { id } :
        Untouched(j) \/ ~(HasSession(reg, id) /\ OpOn(id))

C14_SessionIsolation == [][Isolated]_vars

\* both sessions have been fed and both are under way
C14_Witness ==
    /\ \A id \in Ids : HasSession(reg, id) /\ reg.sessions[id].impl.inputLen > 0
    /\ reg.sessions[1].impl.state # reg.sessions[2].impl.state

(***************************************************************************)
(* Transfer harness: one session whose peer follows the protocol.          *)
(* An upload's peer (rz) confirms the file header and, once the end-of-file*)
(* frame is on the wire, acknowledges it.  A download's peer (sz) sends    *)
(* the file header declaring the size, one data frame per byte, and the    *)
(* end-of-file frame; consecutive frames may arrive in one chunk.  The     *)
(* caller polls the output, the status and the progress.                   *)
(***************************************************************************)
\* the name the peer gives the file: "b"
PeerName == << 98 >>

\* the frames sz sends for the file f, in order
RECURSIVE DataFrames(_, _)
DataFrames(f, i) ==
    IF i > Len(f) THEN << >>
    ELSE << BuildZDATAFrame(<< f[i] >>, i - 1) >> \o DataFrames(f, i + 1)

DownloadScript(f) ==
    << BuildZFILEFrameBinary(PeerName, Len(f)) >> \o DataFrames(f, 1)
        \o << BuildZEOFFrame(Len(f)) >>

\* the frames i..j of a script as one chunk
RECURSIVE Coalesce(_, _, _)
Coalesce(script, i, j) ==
    IF i > j THEN << >> ELSE script[i] \o Coalesce(script, i + 1, j)

TransferInit ==
    /\ CodecIdle
    /\ ChannelIdle
    /\ SniffIdle
    /\ LockIdle
    /\ \E mode \in { ModeUpload, ModeDownload } :
       \E n \in 0..MaxFile :
          /\ peer = [file |-> FileOf(n), sent |-> 0]
          /\ reg = ZmodemInit(NewRegistry, mode,
                              IF mode = ModeUpload THEN FileOf(n) ELSE << >>, TRUE).R
    /\ efed = 0
    /\ ehist = << >>
    /\ elog = << >>
    /\ edisp = { }
    /\ eret = 0
    /\ eout = << >>
    /\ estatus = { }
    /\ evisited = { reg.sessions[TheId].impl.state }

\* the end-of-file frame of the upload has been written to the channel
EofOnWire == EndsWith(eout, BuildZEOFFrame(Len(peer.file)))

\* rz confirms the file header
PeerConfirms(frame) ==
    /\ TheSession.Mode = ModeUpload
    /\ peer.sent = 0
    /\ FeedCall(frame)
    /\ peer' = [peer EXCEPT !.sent = 1]
    /\ UNCHANGED << codecVars, channelVars, sniffVars, lockVars >>

\* rz acknowledges the end-of-file frame it has received
PeerAcks ==
    /\ TheSession.Mode = ModeUpload
    /\ peer.sent = 1
    /\ EofOnWire
    /\ FeedCall(PeerZACK)
    /\ peer' = [peer EXCEPT !.sent = 2]
    /\ UNCHANGED << codecVars, channelVars, sniffVars, lockVars >>

\* sz sends its next k frames in one chunk
PeerSends(k) ==
    /\ TheSession.Mode = ModeDownload
    /\ peer.sent + k <= Len(DownloadScript(peer.file))
    /\ FeedCall(Coalesce(DownloadScript(peer.file), peer.sent + 1, peer.sent + k))
    /\ peer' = [peer EXCEPT !.sent = @ + k]
    /\ UNCHANGED << codecVars, channelVars, sniffVars, lockVars >>

TransferNext ==
    \/ \E frame \in UploadFrames : PeerConfirms(frame)
    \/ PeerAcks
    \/ \E k \in 1..2 : PeerSends(k)
    \/ EPull
    \/ EStatus
    \/ EProgress

SpecTransfer == TransferInit /\ [][TransferNext]_vars

\* The polling timers of the caller fire again and again: a poll of the
\* output, the status or the progress that stays possible is not put off
\* for ever.
SpecTransferFair ==
    /\ SpecTransfer
    /\ WF_vars(EPull)
    /\ WF_vars(EStatus)
    /\ WF_vars(EProgress)

\* C12: in a transfer that runs as the protocol lays down, whenever the
\* engine's state is completed its transferred count equals its fileSize,
\* for an upload and for a download whose file header declared the size.
C12_CompletedFullyTransferred ==
    TheSession.impl.state = "completed" =>
        GetTransferred(TheSession.impl) = TheSession.impl.fileSize

\* the step is a feed to the download engine in which exactly one frame, the
\* peer's file header, was decoded
FileHeaderFed ==
    /\ TheSession.Mode = ModeDownload
    /\ efed' = efed + 1
    /\ Len(elog') = 1
    /\ elog'[1].Type = FrameZFILE

\* what the file header leaves behind, the size apart
HeaderTaken ==
    /\ TheSession'.impl.filename = PeerName
    /\ TheSession'.impl.state = "receiving_data"
    /\ TheSession'.impl.outputBuf = TheSession.impl.outputBuf \o BuildZACKFrame(0)

\* C23: after the download engine has decoded the file header built by
\* BuildZFILEFrameBinary(N, S), its filename is N, its fileSize is S, its
\* state is receiving_data and one ack frame has been appended to the
\* outbound queue.
C23_FileHeaderHandled ==
    [][FileHeaderFed =>
         (HeaderTaken /\ TheSession'.impl.fileSize = Len(peer.file))]_vars

\* the part of the above that leaves the size aside
HeaderTakenAlways == [][FileHeaderFed => HeaderTaken]_vars

\* the download engine has decoded an end-of-file frame
EofDecoded ==
    TheSession.Mode = ModeDownload /\ \E e \in edisp : e.Type = FrameZEOF

\* the ack frame carrying the transferred count, then the finish frame
AckThenFin(z) == BuildZACKFrame(GetTransferred(z)) \o BuildZFINFrame

\* a feed to a download engine whose last decoded frame is the end-of-file
\* frame leaves the engine completed, its file in place, and ack then finish
\* at the end of its outbound queue
EofStep ==
    (/\ TheSession.Mode = ModeDownload
     /\ efed' = efed + 1
     /\ elog' # << >>
     /\ elog'[Len(elog')].Type = FrameZEOF)
    => /\ TheSession'.impl.state = "completed"
       /\ TheSession'.impl.fileOpen
       /\ EndsWith(TheSession'.impl.outputBuf, AckThenFin(TheSession'.impl))

\* status 2 has been reported, the destination file is in place, and the
\* last bytes written to the channel are the ack and then the finish frame
EofReported ==
    /\ StatusCompleted \in estatus
    /\ TheSession.impl.fileOpen
    /\ EndsWith(eout, AckThenFin(TheSession.impl))

\* C18: when a download engine decodes an end-of-file frame it moves to
\* completed and appends to its outbound queue the ack frame carrying the
\* transferred count and then the finish frame; with fair polling the bytes
\* reach the channel in that order, status 2 is reported, and the
\* destination file exists.
C18_DownloadEndOfFile ==
    /\ [][EofStep]_vars
    /\ EofDecoded ~> EofReported

\* the session is an upload whose peer has sent k of its two answers
UploadAt(k) == TheSession.Mode = ModeUpload /\ peer.sent = k

\* whenever ZmodemGetStatus reports 2 for the upload, ZmodemGetProgress
\* reports transferred = total = the size of the local file
DoneMeansAllSent ==
    (TheSession.Mode = ModeUpload
       /\ ZmodemGetStatus(reg, TheId).status = StatusCompleted)
    => /\ ZmodemGetProgress(reg, TheId).transferred = Len(peer.file)
       /\ ZmodemGetProgress(reg, TheId).total = Len(peer.file)

\* C19: for an upload of a file of n bytes under fair polling, once the peer
\* has confirmed the file header the end-of-file frame reaches the channel
\* (so the peer can acknowledge it), once the peer has acknowledged it
\* status 2 is reported, and whenever status 2 is reported the progress has
\* transferred = total = n.
C19_UploadLiveness ==
    /\ [] DoneMeansAllSent
    /\ UploadAt(1) ~> EofOnWire
    /\ UploadAt(2) ~> (StatusCompleted \in estatus)

\* the upload of a file of MaxFile bytes has been acknowledged and reported
\* completed
C19_Witness ==
    /\ UploadAt(2)
    /\ Len(peer.file) = MaxFile
    /\ StatusCompleted \in estatus
    /\ TheSession.impl.state = "completed"
    /\ ZmodemGetProgress(reg, TheId).transferred = MaxFile

\* a download of a non-empty file has ended: the end-of-file frame was
\* decoded, status 2 was reported and the answers are on the channel
C18_Witness ==
    /\ EofDecoded
    /\ EofReported
    /\ peer.file # << >>
    /\ TheSession.impl.content = peer.file

(***************************************************************************)
(* Stream harness: a download whose peer follows the protocol (the frames  *)
(* of DownloadScript), with the byte stream cut into chunks by the         *)
(* transport.  peer.sent counts the bytes of the stream delivered.  Every  *)
(* chunk lies within one frame and starts or ends at a frame boundary, so  *)
(* a frame arrives whole or in two pieces, cut at any place.               *)
(***************************************************************************)
\* the bytes sz sends for the file f
DownloadStream(f) == Coalesce(DownloadScript(f), 1, Len(DownloadScript(f)))

\* the offsets of the stream at which a frame of the script ends
FrameEnds(f) ==
    { Len(Coalesce(DownloadScript(f), 1, j)) : j \in 0..Len(DownloadScript(f)) }

\* the chunk of bytes a+1..b of the stream is one the transport may deliver
ChunkOfOneFrame(ends, a, b) ==
    /\ a \in ends \/ b \in ends
    /\ \A e \in ends : ~(a < e /\ e < b)

\* the peer of the stream harness carries its stream and the frame ends
StreamInit ==
    /\ CodecIdle
    /\ ChannelIdle
    /\ SniffIdle
    /\ LockIdle
    /\ \E n \in 0..MaxFile :
          peer = [file |-> FileOf(n), sent |-> 0,
                  stream |-> DownloadStream(FileOf(n)), ends |-> FrameEnds(FileOf(n))]
    /\ reg = ZmodemInit(NewRegistry, ModeDownload, << >>, TRUE).R
    /\ efed = 0
    /\ ehist = << >>
    /\ elog = << >>
    /\ edisp = { }
    /\ eret = 0
    /\ eout = << >>
    /\ estatus = { }
    /\ evisited = { reg.sessions[TheId].impl.state }

\* the channel delivers the next k bytes of the stream: stream.on('data'),
\* ZMODEMManager.handleData, ZmodemFeedData
PeerStreams(k) ==
    /\ peer.sent + k <= Len(peer.stream)
    /\ ChunkOfOneFrame(peer.ends, peer.sent, peer.sent + k)
    /\ FeedCall(SubSeq(peer.stream, peer.sent + 1, peer.sent + k))
    /\ peer' = [peer EXCEPT !.sent = @ + k]
    /\ UNCHANGED << codecVars, channelVars, sniffVars, lockVars >>

\* the longest chunk: the longest frame of a script, the file header
MaxChunkLen == Len(BuildZFILEFrameBinary(PeerName, MaxFile))

StreamNext ==
    \/ \E k \in 1..MaxChunkLen : PeerStreams(k)
    \/ EPull

SpecStream == StreamInit /\ [][StreamNext]_vars

IsPrefixOf(pre, whole) ==
    Len(pre) <= Len(whole) /\ SubSeq(whole, 1, Len(pre)) = pre

\* the whole stream of the download has been delivered
StreamDelivered == peer.sent = Len(peer.stream)

\* C21: in a download the bytes written to the destination file are the
\* payloads of the data frames the peer has sent, in order, and transferred
\* is their number: at every moment the file is a prefix of the peer's file
\* with transferred = its length, and once the whole stream has arrived the
\* file equals the peer's file -- however the stream was cut into chunks.
C21_DownloadedContent ==
    /\ IsPrefixOf(TheSession.impl.content, peer.file)
    /\ GetTransferred(TheSession.impl) = Len(TheSession.impl.content)
    /\ StreamDelivered => TheSession.impl.content = peer.file

(***************************************************************************)
(* Pull harness: one session whose caller polls ZmodemGetOutputData with   *)
(* buffers of several sizes while the peer's frames arrive.  eout is what  *)
(* the calls have returned, elog what the engine was expected to send:     *)
(* the frames in the order they were enqueued or synthesized.  peer holds  *)
(* the data frames a receiver expects for the file, the sizes of their     *)
(* chunks, and how many of them the polls so far had to synthesize.        *)
(***************************************************************************)
\* the sizes of the local file: empty, short, a full chunk and more
PullFiles == { 0, MaxFile, ChunkSize + MaxFile }

\* a buffer one byte short of the shortest frame
SmallBuffer == Len(BuildZRINITFrame) - 1

\* the buffer sizes of the caller: the manager's, one smaller than any
\* frame, and one that holds nothing
PullBuffers == { OutputBufferSize, SmallBuffer, 0 }

\* the file cut into chunks of 1024 bytes, the last one shorter
Chunks(content) ==
    [k \in 1..((Len(content) + ChunkSize - 1) \div ChunkSize) |->
        SubSeq(content, (k - 1) * ChunkSize + 1, Min(k * ChunkSize, Len(content)))]

\* the offset of the chunk k of a file cut into chunks: 0, n1, n1 + n2, ...
RECURSIVE OffsetOf(_, _)
OffsetOf(chunks, k) ==
    IF k <= 1 THEN 0 ELSE OffsetOf(chunks, k - 1) + Len(chunks[k - 1])

\* the same from the sizes n1, n2, ... of the chunks
RECURSIVE OffsetAt(_, _)
OffsetAt(sizes, k) ==
    IF k <= 1 THEN 0 ELSE OffsetAt(sizes, k - 1) + sizes[k - 1]

\* the data frames of the file: chunk k at its offset
ChunkFrames(content) ==
    [k \in 1..Len(Chunks(content)) |->
        BuildZDATAFrame(Chunks(content)[k], OffsetOf(Chunks(content), k))]

PullInit ==
    /\ CodecIdle
    /\ ChannelIdle
    /\ SniffIdle
    /\ LockIdle
    /\ \E mode \in { ModeUpload, ModeDownload } :
       \E n \in PullFiles :
          /\ (mode = ModeDownload => n = 0)
          /\ reg = ZmodemInit(NewRegistry, mode, FileOf(n), TRUE).R
          /\ elog = (IF mode = ModeUpload THEN BuildZFILEFrameBinary(BaseName, n)
                     ELSE BuildZRINITFrame)
          /\ peer = [size |-> n, sent |-> 0,
                     sizes |-> [k \in 1..Len(Chunks(FileOf(n))) |-> Len(Chunks(FileOf(n))[k])],
                     frames |-> ChunkFrames(FileOf(n))]
    /\ efed = 0
    /\ ehist = << >>
    /\ edisp = { }
    /\ eret = 0
    /\ eout = << >>
    /\ estatus = { }
    /\ evisited = { }

\* a poll of engine z with a buffer of b bytes gets nothing from the queue
\* in sending_data of an upload: it goes on to the file
ReachesFile(z, b) ==
    z.mode = ModeUpload /\ z.state = "sending_data" /\ (z.outputBuf = << >> \/ b = 0)

\* the frame that poll is expected to synthesize: the next data frame of
\* the file or, once all of them are out and the queue is empty, the
\* end-of-file frame
Synthesized(z, b) ==
    IF ~ReachesFile(z, b) THEN << >>
    ELSE IF peer.sent < Len(peer.frames) THEN peer.frames[peer.sent + 1]
    ELSE IF z.outputBuf = << >> THEN BuildZEOFFrame(peer.size)
    ELSE << >>

\* the peer's frame w arrives; what the engine queues in reply is expected
PollFeed(w) ==
    /\ efed < MaxFeeds
    /\ \E r \in { ZmodemFeedData(reg, TheId, w) } :
           /\ reg' = r.R
           /\ eret' = r.ret
           /\ elog' = elog \o Drop(r.R.sessions[TheId].impl.outputBuf,
                                   Len(TheSession.impl.outputBuf))
    /\ efed' = efed + 1
    /\ ehist' = << [op |-> "feed", buf |-> 0] >>
    /\ UNCHANGED << edisp, eout, estatus, evisited >>
    /\ UNCHANGED << codecVars, channelVars, sniffVars, peerVars, lockVars >>

\* the caller polls with a buffer of b bytes
Poll(b) ==
    /\ \E r \in { ZmodemGetOutputData(reg, TheId, b) } :
           /\ reg' = r.R
           /\ eout' = eout \o r.out
    /\ elog' = elog \o Synthesized(TheSession.impl, b)
    /\ peer' = IF ReachesFile(TheSession.impl, b) /\ peer.sent < Len(peer.frames)
               THEN [peer EXCEPT !.sent = @ + 1]
               ELSE peer
    /\ ehist' = << [op |-> "pull", buf |-> b] >>
    /\ UNCHANGED << efed, edisp, eret, estatus, evisited >>
    /\ UNCHANGED << codecVars, channelVars, sniffVars, lockVars >>

PullNext ==
    \/ \E w \in ValidFrames(TheSession.Mode) : PollFeed(w)
    \/ \E b \in PullBuffers : Poll(b)

SpecPull == PullInit /\ [][PullNext]_vars

\* the step is a poll
IsPull == ehist' # << >> /\ ehist'[1].op = "pull"

\* the bytes the step's call returned
Returned == Drop(eout', Len(eout))

\* the size of the buffer of the step's poll
Buf == ehist'[1].buf

\* the step is a poll that has to synthesize data frame k
SynthesizesData(k) ==
    /\ IsPull
    /\ ReachesFile(TheSession.impl, Buf)
    /\ peer.sent = k - 1
    /\ k <= Len(peer.frames)

\* what the step returned and what it left queued are data frame k, which
\* holds at most 1024 bytes and the offset transferred had before the call
OneDataFrame(k) ==
    /\ peer.sizes[k] <= ChunkSize
    /\ TheSession.impl.transferred = OffsetAt(peer.sizes, k)
    /\ Returned \o TheSession'.impl.outputBuf = TheSession.impl.outputBuf \o peer.frames[k]
    /\ TheSession'.impl.transferred = TheSession.impl.transferred + peer.sizes[k]

\* C26: in sending_data each GetOutputData call that synthesizes a frame
\* reads at most 1024 file bytes, emits one data frame whose flags are the
\* transferred count before the call and adds the bytes read to
\* transferred, so that successive data frames carry the offsets 0, n1,
\* n1+n2, ... without gap or overlap, whatever the size of the caller's
\* buffer.
C26_UploadDataOffsets ==
    [][\A k \in 1..Len(peer.frames) : SynthesizesData(k) => OneDataFrame(k)]_vars

\* the second data frame of a file was synthesized by a poll whose buffer
\* is smaller than the frame
C26_Witness ==
    /\ peer.sent = 2
    /\ TheSession.impl.transferred = ChunkSize + MaxFile
    /\ ehist = << [op |-> "pull", buf |-> SmallBuffer] >>
    /\ Len(TheSession.impl.outputBuf) > 0
    /\ TheSession.impl.state = "sending_data"

\* all that the polls have returned, followed by what is queued, is the
\* frames in the order they were enqueued or synthesized
Fifo == eout \o TheSession.impl.outputBuf = elog

\* the step's poll has read the file or queued a frame of its own
Synthesizes ==
    \/ TheSession'.impl.readPos # TheSession.impl.readPos
    \/ Len(Returned) + Len(TheSession'.impl.outputBuf) > Len(TheSession.impl.outputBuf)

\* a poll that finds bytes queued returns the first of them, as many as
\* its buffer holds, and leaves the rest queued
DrainsFirst ==
    (IsPull /\ TheSession.impl.outputBuf # << >>) =>
        /\ Returned = SubSeq(TheSession.impl.outputBuf, 1,
                             Min(Buf, Len(TheSession.impl.outputBuf)))
        /\ SubSeq(TheSession'.impl.outputBuf, 1, Len(TheSession.impl.outputBuf) - Len(Returned))
             = Drop(TheSession.impl.outputBuf, Len(Returned))

\* a poll synthesizes only when the queue is empty in sending_data of an
\* upload
OnlyWhenEmpty ==
    (IsPull /\ Synthesizes) =>
        /\ TheSession.impl.outputBuf = << >>
        /\ TheSession.impl.mode = ModeUpload
        /\ TheSession.impl.state = "sending_data"

\* C27: GetOutputData returns queued bytes before it reads the file and
\* synthesizes a frame only when the queue is empty, the mode is upload and
\* the state is sending_data; so the blocks the successive calls return
\* are, concatenated, the frames in the order they were enqueued or
\* synthesized, nothing duplicated, dropped or reordered, for every size
\* of the caller's buffer.
C27_OutboundFifo ==
    /\ [] Fifo
    /\ [][DrainsFirst /\ OnlyWhenEmpty]_vars

\* C27 as it holds: the same for every buffer that holds at least one
\* byte; a poll with a buffer of no bytes goes on to the file also when
\* bytes are queued, and the frame it synthesizes is queued behind them.
C27_OutboundFifoNonEmptyBuffer ==
    /\ [] Fifo
    /\ [][DrainsFirst /\ (Buf > 0 => OnlyWhenEmpty)]_vars

\* a frame the peer's reply enqueued behind the rest of another has been
\* returned in pieces, and the second data frame of a file is partly out
C27_Witness ==
    /\ ehist = << [op |-> "pull", buf |-> SmallBuffer] >>
    /\ Len(TheSession.impl.outputBuf) > 0
    /\ Len(eout) > SmallBuffer
    /\ \/ peer.sent = 2
       \/ TheSession.impl.mode = ModeDownload /\ efed = MaxFeeds

(***************************************************************************)
(* Pass harness.  Either a parser on its own: chunks reach it by AddData,  *)
(* and the ParseFrame call that follows each AddData is run one pass of    *)
(* its loop at a time.  Or one session that is fed, in one ZmodemFeedData   *)
(* call, more frames than the parse loop of FeedData takes up.             *)
(***************************************************************************)
MaxAdds == 4
MaxBursts == 2

\* what one AddData brings: terminal output, a pad, the escape byte, the
\* format bytes, two whole headers and a binary header cut after its type
PassChunks ==
    { << 122 >>, << ZPAD >>, << ZPAD, ZPAD >>, << ZDLE >>, << ZHEX >>, << ChB >>,
      BuildZACKFrame(0), << ZPAD, ZPAD, ZDLE, ChB, 48, 49 >>,
      SubSeq(BuildZACKFrame(0), 1, 5) }

\* n copies of a frame, one after the other
Times(w, n) == [i \in 1..(n * Len(w)) |-> w[((i - 1) % Len(w)) + 1]]

\* the number of frames of one burst: none, one, the limit of the parse loop
\* and more than the limit
BurstSizes == { 0, 1, MaxIterations, MaxIterations + 1, MaxIterations + 2 }

\* the frame a burst repeats: rz's ZRINIT to an upload, a data frame of one
\* byte to a download
BurstFrame(mode) ==
    IF mode = ModeUpload
    THEN << 42, 42, 24, 66, 48, 49, 48, 48, 48, 48, 48, 48, 50, 51, 98, 101, 53, 48,
            13, 138, 17 >>
    ELSE BuildZDATAFrame(<< 65 >>, 0)

NoPass == [at |-> NewFrameParser, passes |-> 0, fed |-> 0, done |-> 0]

PassInit ==
    /\ cin = [type |-> 0, flags |-> ZeroFlags, aux |-> ZeroFlags, data |-> << >>,
              useCRC32 |-> TRUE]
    /\ cwire = << >>
    /\ cp = NewFrameParser
    /\ cfed = 0
    /\ cout = << >>
    /\ cerr = 0
    /\ peer = NoPass
    /\ \/ /\ cmode = "wait"
          /\ reg = NewRegistry
       \/ /\ cmode = "off"
          /\ \E mode \in { ModeUpload, ModeDownload } :
                 reg = ZmodemInit(NewRegistry, mode, << >>, TRUE).R
    /\ efed = 0
    /\ ehist = << >>
    /\ elog = << >>
    /\ edisp = { }
    /\ eret = 0
    /\ eout = << >>
    /\ estatus = { }
    /\ evisited = { }
    /\ ChannelIdle
    /\ SniffIdle
    /\ LockIdle

\* AddData, and the ParseFrame call after it begins
PassAdd(chunk) ==
    /\ cmode = "wait"
    /\ cfed < MaxAdds
    /\ cp' = AddData(cp, chunk)
    /\ cfed' = cfed + 1
    /\ cmode' = "parse"
    /\ cwire' = chunk
    /\ cout' = << >>
    /\ cerr' = 0
    /\ peer' = [peer EXCEPT !.at = AddData(cp, chunk), !.passes = 0]
    /\ UNCHANGED cin
    /\ UNCHANGED << engineVars, channelVars, sniffVars, lockVars >>

\* the loop condition of ParseFrame fails: return nil, nil (frame.go:312)
PassExit ==
    /\ cmode = "parse"
    /\ Len(cp.buffer) = 0
    /\ cmode' = "wait"
    /\ UNCHANGED << cin, cwire, cp, cfed, cout, cerr, peer >>
    /\ UNCHANGED << engineVars, channelVars, sniffVars, lockVars >>

\* one pass of the loop of ParseFrame
Pass ==
    /\ cmode = "parse"
    /\ Len(cp.buffer) > 0
    /\ \E s \in { ParsePass(cp) } :
           /\ cp' = s.p
           /\ cmode' = IF s.ret THEN "wait" ELSE "parse"
           /\ cout' = s.frame
           /\ cerr' = IF s.err THEN 1 ELSE 0
    /\ peer' = [peer EXCEPT !.passes = @ + 1]
    /\ UNCHANGED << cin, cwire, cfed >>
    /\ UNCHANGED << engineVars, channelVars, sniffVars, lockVars >>

\* one ZmodemFeedData call that brings n frames
Burst(n) ==
    /\ cmode = "off"
    /\ efed < MaxBursts
    /\ \E r \in { ZmodemFeedData(reg, TheId, Times(BurstFrame(TheSession.Mode), n)) } :
           /\ reg' = r.R
           /\ elog' = [i \in 1..Len(r.log) |->
                          [Type |-> r.log[i].frame.Type, state |-> r.log[i].state]]
           /\ eret' = r.ret
           /\ peer' = [peer EXCEPT !.fed = @ + n, !.done = @ + Len(r.log)]
    /\ efed' = efed + 1
    /\ ehist' = << [frames |-> n, pending |-> peer.fed - peer.done] >>
    /\ UNCHANGED << edisp, eout, estatus, evisited >>
    /\ UNCHANGED << codecVars, channelVars, sniffVars, lockVars >>

PassNext ==
    \/ \E chunk \in PassChunks : PassAdd(chunk)
    \/ PassExit
    \/ Pass
    \/ \E n \in BurstSizes : Burst(n)

SpecPass == PassInit /\ [][PassNext]_vars

\* a goroutine that is inside ParseFrame goes on running
SpecPassFair == SpecPass /\ WF_vars(Pass) /\ WF_vars(PassExit)

IsPass == cmode = "parse" /\ peer'.passes = peer.passes + 1
Returns == cmode' = "wait"
Shortens == Len(cp'.buffer) < Len(cp.buffer)

\* the pass sent the parser back to look for a frame start
BackToIdle ==
    cp.state = "waiting_zdle" /\ cp'.state = "idle" /\ cp'.buffer = cp.buffer

\* the ParseFrame call under way does not go on for ever
CallReturns == (cmode = "parse") ~> (cmode = "wait")

\* the passes the call under way has made, against the bytes it began with
PassesBounded == peer.passes <= 2 * Len(peer.at.buffer) + 1

\* a call that has returned left what ParseFrame computes in one go
PassesAgree ==
    (cmode = "wait" /\ cfed > 0) =>
        [p |-> cp, frame |-> cout, err |-> (cerr = 1)] = ParseFrame(peer.at)

IsBurst == cmode = "off" /\ efed' = efed + 1
Owed == ehist'[1].pending + ehist'[1].frames

\* the call dispatched the frames it was owed up to the limit of the loop,
\* and the parser holds the others
BurstBounded ==
    /\ Len(elog') <= MaxIterations
    /\ Len(elog') = (IF Owed < MaxIterations THEN Owed ELSE MaxIterations)
    /\ EndsWith(TheSession'.impl.parser.buffer,
                Times(BurstFrame(TheSession.Mode), Owed - Len(elog')))
    /\ eret' = 0

\* C31: ParseFrame terminates for every buffer and parser state, each pass
\* of its loop either returning or strictly shortening the buffer; every
\* FeedData call dispatches at most 100 frames and leaves the further
\* complete frames in the parser for the next call.
C31_ParsingTerminates ==
    /\ [][IsPass => (Returns \/ Shortens)]_vars
    /\ CallReturns
    /\ [][IsBurst => BurstBounded]_vars

\* C31 as the code has it: a pass returns, shortens the buffer, or sends the
\* parser from waiting_zdle back to idle with the buffer as it was; a pass
\* made in idle returns or shortens the buffer, so a call makes at most
\* two passes for each byte and one more.
C31_ParsingTerminatesWithinTwoPasses ==
    /\ [][IsPass => (Returns \/ Shortens \/ BackToIdle)]_vars
    /\ [][(IsPass /\ cp.state = "idle") => (Returns \/ Shortens)]_vars
    /\ [] PassesBounded
    /\ [] PassesAgree
    /\ CallReturns
    /\ [][IsBurst => BurstBounded]_vars

\* the call that followed the AddData of 'z' to a parser in waiting_zdle
\* went back to idle on its first pass and returned on its second
C31_Witness ==
    /\ cmode = "wait"
    /\ cwire = << 122 >>
    /\ peer.at.state = "waiting_zdle"
    /\ peer.at.buffer = << 122 >>
    /\ peer.passes = 2
    /\ cp = [peer.at EXCEPT !.state = "idle"]

(***************************************************************************)
(* Flood harness: one session is fed terminal output that holds no frame   *)
(* start (no ZPAD ZPAD, within a chunk or across two chunks).              *)
(***************************************************************************)
MaxFloods == 3

\* 'z' bytes, with a single pad at the end of the chunks that have one
FloodChunks ==
    { Repeat(122, 1), Repeat(122, 300), Repeat(122, IdleKeepAbove),
      Repeat(122, IdleKeepAbove + 1), Repeat(122, 599) \o << ZPAD >> }

FloodInit ==
    /\ CodecIdle
    /\ ChannelIdle
    /\ SniffIdle
    /\ PeerIdle
    /\ LockIdle
    /\ \E mode \in { ModeUpload, ModeDownload } :
           reg = ZmodemInit(NewRegistry, mode, << >>, TRUE).R
    /\ efed = 0
    /\ ehist = << >>
    /\ elog = << >>
    /\ edisp = { }
    /\ eret = 0
    /\ eout = << >>
    /\ estatus = { }
    /\ evisited = { }

\* one ZmodemFeedData call; ehist lists the lengths of the chunks fed
Flood(chunk) ==
    /\ Live
    /\ efed < MaxFloods
    /\ \E r \in { ZmodemFeedData(reg, TheId, chunk) } :
           /\ reg' = r.R
           /\ eret' = r.ret
    /\ efed' = efed + 1
    /\ ehist' = Append(ehist, Len(chunk))
    /\ UNCHANGED << elog, edisp, eout, estatus, evisited >>
    /\ UNCHANGED << codecVars, channelVars, sniffVars, peerVars, lockVars >>

FloodNext == \E chunk \in FloodChunks : Flood(chunk)

SpecFlood == FloodInit /\ [][FloodNext]_vars

RECURSIVE SumOf(_, _)
SumOf(lens, n) == IF n = 0 THEN 0 ELSE SumOf(lens, n - 1) + lens[n]

\* the bytes of the inbound stream the engine holds
Buffered == Len(TheSession.impl.parser.buffer) + TheSession.impl.inputLen

\* twice the length the parser lets its own buffer reach while it finds no frame
\* start
InboundBound == 2 * IdleKeepAbove

\* C32: while the inbound stream holds no frame start, the inbound bytes the
\* engine keeps (parser buffer plus input accumulator) stay within a fixed
\* bound after every FeedData call, however many bytes are fed.
C32_InboundBounded == Live => Buffered <= InboundBound

\* the parser's buffer alone stays within the bound, and the accumulator
\* holds every byte that was ever fed
ParserBufferBounded == Live => Len(TheSession.impl.parser.buffer) <= InboundBound
AccumulatorKeepsAll == Live => TheSession.impl.inputLen = SumOf(ehist, Len(ehist))

(***************************************************************************)
(* Lock harness: three goroutines call the methods of one ZmodemImpl.      *)
(* Every method starts with z.mu.Lock() and ends, through defer, with      *)
(* z.mu.Unlock(); between the two its body runs in two steps, so that a    *)
(* body another goroutine could enter would be seen half done.             *)
(***************************************************************************)
MaxCalls == 3

\* a Lock() that returns at once, whoever holds the mutex
LockNeverBlocks(m) == m \in { "free" } \cup Threads

\* z.mu.Lock() returns only when no goroutine holds the mutex
CanLock(m) == m = "free"

\* FeedData up to the parse loop (zmodem.go:292-296, 410)
FeedAdd(z, data) ==
    [z EXCEPT !.inputLen = @ + Len(data), !.parser = AddData(z.parser, data)]

\* the parse loop of FeedData
FeedParse(z) == FeedLoop(z, 1, << >>).z

\* GetOutputData up to the read of the file (zmodem.go:517-543):
\* [z, n, more]; more = the call goes on after the read
PullRead(z, bufLen) ==
    IF Len(z.outputBuf) > 0 /\ bufLen > 0
    THEN [z |-> ReadOutputBuf(z, bufLen).z, n |-> 0, more |-> FALSE]
    ELSE IF z.mode = ModeUpload /\ z.fileOpen /\ z.state = "sending_data"
    THEN [z |-> [z EXCEPT !.readPos = @ + Min(ChunkSize, Len(z.content) - z.readPos)],
          n |-> Min(ChunkSize, Len(z.content) - z.readPos), more |-> TRUE]
    ELSE [z |-> z, n |-> 0, more |-> FALSE]

\* the data frame GetOutputData builds from the n bytes it has read
PullFrame(z, n) ==
    BuildZDATAFrame(SubSeq(z.content, z.readPos - n + 1, z.readPos), z.transferred)

\* GetOutputData after the read of n bytes (zmodem.go:545-595)
PullSend(z, bufLen, n) ==
    IF n > 0
    THEN IF bufLen < Len(PullFrame(z, n))
         THEN ReadOutputBuf([z EXCEPT !.outputBuf = @ \o PullFrame(z, n),
                                      !.transferred = @ + n], bufLen).z
         ELSE [z EXCEPT !.transferred = @ + n]
    ELSE IF Len(z.outputBuf) = 0
    THEN [z EXCEPT !.outputBuf = BuildZEOFFrame(z.transferred), !.state = "sending_eof"]
    ELSE z

\* the buffer sizes GetOutputData is called with: the manager's, and one
\* smaller than any frame
LockBuffers == { OutputBufferSize, 8 }

\* the calls each goroutine makes
CallsOf(t, mode) ==
    IF t = "feeder"
    THEN { [op |-> "FeedData", data |-> d, n |-> 0, more |-> FALSE] :
             d \in IF mode = ModeUpload THEN { HexZRINIT, PeerZACK }
                   ELSE { PeerZFILE, PeerZDATA, PeerZEOF } }
    ELSE IF t = "poller"
    THEN { [op |-> "GetOutputData", data |-> << >>, n |-> b, more |-> FALSE] :
             b \in LockBuffers }
    ELSE { [op |-> o, data |-> << >>, n |-> 0, more |-> FALSE] :
             o \in { "GetTransferred", "GetState", "Close" } }

\* the engine after the whole call c
Whole(z, c) ==
    IF c.op = "FeedData" THEN FeedData(z, c.data).z
    ELSE IF c.op = "GetOutputData" THEN GetOutputData(z, c.n).z
    ELSE IF c.op = "Close" THEN Close(z)
    ELSE z

LockInit ==
    /\ CodecIdle
    /\ ChannelIdle
    /\ SniffIdle
    /\ PeerIdle
    /\ \E mode \in { ModeUpload, ModeDownload } :
       \E n \in { 0, MaxFile } :
          /\ (mode = ModeDownload => n = 0)
          /\ reg = ZmodemInit(NewRegistry, mode, FileOf(n), TRUE).R
    /\ efed = 0
    /\ ehist = << >>
    /\ elog = << >>
    /\ edisp = { }
    /\ eret = 0
    /\ eout = << >>
    /\ estatus = { }
    /\ evisited = { }
    /\ mu = "free"
    /\ tpc = [t \in Threads |-> "idle"]
    /\ tcall = [t \in Threads |-> NoCall]
    /\ tcalls = 0
    /\ zref = reg.sessions[TheId].impl

lockRest == << codecVars, efed, ehist, elog, edisp, eret, eout, estatus, evisited,
               channelVars, sniffVars, peerVars >>

SetImpl(z) == reg' = [reg EXCEPT !.sessions[TheId].impl = z]

\* goroutine t calls a method
Call(t, c) ==
    /\ tpc[t] = "idle"
    /\ tcalls < MaxCalls
    /\ tpc' = [tpc EXCEPT ![t] = "lock"]
    /\ tcall' = [tcall EXCEPT ![t] = c]
    /\ tcalls' = tcalls + 1
    /\ UNCHANGED << reg, mu, zref, lockRest >>

\* z.mu.Lock() returns
Acquire(t) ==
    /\ tpc[t] = "lock"
    /\ CanLock(mu)
    /\ mu' = t
    /\ tpc' = [tpc EXCEPT ![t] = "locked"]
    /\ zref' = Whole(zref, tcall[t])
    /\ UNCHANGED << reg, tcall, tcalls, lockRest >>

\* the first part of the method's body
Body1(t) ==
    /\ tpc[t] = "locked"
    /\ IF tcall[t].op = "FeedData"
       THEN /\ SetImpl(FeedAdd(TheSession.impl, tcall[t].data))
            /\ tcall' = [tcall EXCEPT ![t].more = TRUE]
       ELSE IF tcall[t].op = "GetOutputData"
       THEN \E r \in { PullRead(TheSession.impl, tcall[t].n) } :
               /\ SetImpl(r.z)
               /\ tcall' = [tcall EXCEPT ![t].data = << r.n >>, ![t].more = r.more]
       ELSE IF tcall[t].op = "Close"
       THEN SetImpl(Close(TheSession.impl)) /\ UNCHANGED tcall
       ELSE UNCHANGED << reg, tcall >>
    /\ tpc' = [tpc EXCEPT ![t] = IF tcall'[t].more THEN "working" ELSE "unlock"]
    /\ UNCHANGED << mu, tcalls, zref, lockRest >>

\* the rest of the body
Body2(t) ==
    /\ tpc[t] = "working"
    /\ IF tcall[t].op = "FeedData"
       THEN SetImpl(FeedParse(TheSession.impl))
       ELSE SetImpl(PullSend(TheSession.impl, tcall[t].n, tcall[t].data[1]))
    /\ tpc' = [tpc EXCEPT ![t] = "unlock"]
    /\ UNCHANGED << mu, tcall, tcalls, zref, lockRest >>

\* the deferred z.mu.Unlock()
Release(t) ==
    /\ tpc[t] = "unlock"
    /\ mu' = "free"
    /\ tpc' = [tpc EXCEPT ![t] = "idle"]
    /\ UNCHANGED << reg, tcall, tcalls, zref, lockRest >>

LockNext ==
    \E t \in Threads :
        \/ \E c \in CallsOf(t, TheSession.Mode) : Call(t, c)
        \/ Acquire(t)
        \/ Body1(t)
        \/ Body2(t)
        \/ Release(t)

SpecLock == LockInit /\ [][LockNext]_vars

\* the goroutines inside a method body
Inside == { t \in Threads : tpc[t] \in { "locked", "working", "unlock" } }

\* C13: the executions of FeedData, GetOutputData, Close, GetTransferred and
\* GetState on one engine never overlap, and whenever no call is under way
\* the engine (state, transferred, outbound queue, parser buffer) is what
\* the calls made so far give when run whole, one after another.
C13_MutualExclusion ==
    /\ Cardinality(Inside) <= 1
    /\ (Inside = { } => TheSession.impl = zref)

\* FeedData and GetOutputData have both run while the other was waiting
C13_Witness ==
    /\ Inside = { }
    /\ tcalls = MaxCalls
    /\ tpc["feeder"] = "idle" /\ tcall["feeder"].op = "FeedData"
    /\ tpc["poller"] = "idle" /\ tcall["poller"].op = "GetOutputData"
    /\ TheSession.impl.state \in { "sending_data", "sending_eof", "receiving_data" }

(***************************************************************************)
(* Registry harness: two goroutines call NewSession, GetSession and      *)
(* RemoveSession.  NewSession and RemoveSession hold sessionManager.mu     *)
(* (Lock), GetSession holds it shared (RLock); the body of NewSession runs  *)
(* statement by statement.  mu is [w, r]: the goroutine that holds the     *)
(* lock, and the goroutines that hold it shared.                           *)
(***************************************************************************)
MaxRegCalls == 4

\* the ids GetSession and RemoveSession are called with
RegIds == 1..2

Goroutines == { "feeder", "poller" }

\* a Lock() that returns at once, whoever holds the mutex
WLockNeverBlocks(m) == m.w \in { "free", "feeder", "poller" }

\* sessionManager.mu.Lock() returns only when no goroutine holds the mutex,
\* shared or not
CanWLock(m) == m.w = "free" /\ m.r = { }

\* sessionManager.mu.RLock() returns only when no goroutine holds the mutex
\* for writing
CanRLock(m) == m.w = "free"

NoRegCall == [op |-> "none", mode |-> 0, id |-> 0, found |-> << >>]

RegCalls ==
    { [op |-> "NewSession", mode |-> mode, id |-> 0, found |-> << >>] :
        mode \in { ModeUpload, ModeDownload } }
      \cup { [op |-> o, mode |-> 0, id |-> i, found |-> << >>] :
               o \in { "GetSession", "RemoveSession" }, i \in RegIds }

\* the impl the callers of NewSession pass
RegImpl(mode) == NewZmodemImpl(mode, << >>)

\* the registry after the whole call c
WholeReg(R, c) ==
    IF c.op = "NewSession" THEN NewSession(R, c.mode, RegImpl(c.mode))
    ELSE IF c.op = "RemoveSession" THEN RemoveSession(R, c.id)
    ELSE R

\* what GetSession(id) returns: << >> stands for nil
Lookup(R, id) == IF HasSession(R, id) THEN << R.sessions[id] >> ELSE << >>

RegInit ==
    /\ CodecIdle
    /\ ChannelIdle
    /\ SniffIdle
    /\ reg = NewRegistry
    /\ efed = 0
    /\ ehist = << >>
    /\ elog = << >>
    /\ edisp = { }
    /\ eret = 0
    /\ eout = << >>
    /\ estatus = { }
    /\ evisited = { }
    /\ peer = [returned |-> << >>, removed |-> { }]
    /\ mu = [w |-> "free", r |-> { }]
    /\ tpc = [t \in Goroutines |-> "idle"]
    /\ tcall = [t \in Goroutines |-> NoRegCall]
    /\ tcalls = 0
    /\ zref = NewRegistry

regRest == << codecVars, efed, ehist, elog, edisp, eret, eout, estatus, evisited,
              channelVars, sniffVars >>

\* goroutine t calls a function of the registry
RegCall(t, c) ==
    /\ tpc[t] = "idle"
    /\ tcalls < MaxRegCalls
    /\ tpc' = [tpc EXCEPT ![t] = "lock"]
    /\ tcall' = [tcall EXCEPT ![t] = c]
    /\ tcalls' = tcalls + 1
    /\ UNCHANGED << reg, mu, zref, peer, regRest >>

\* sessionManager.mu.Lock() returns (NewSession, RemoveSession)
RegLock(t) ==
    /\ tpc[t] = "lock"
    /\ tcall[t].op \in { "NewSession", "RemoveSession" }
    /\ CanWLock(mu)
    /\ mu' = [mu EXCEPT !.w = t]
    /\ tpc' = [tpc EXCEPT ![t] = IF tcall[t].op = "NewSession" THEN "read" ELSE "delete"]
    /\ zref' = WholeReg(zref, tcall[t])
    /\ UNCHANGED << reg, tcall, tcalls, peer, regRest >>

\* sessionManager.mu.RLock() returns (GetSession)
RegRLock(t) ==
    /\ tpc[t] = "lock"
    /\ tcall[t].op = "GetSession"
    /\ CanRLock(mu)
    /\ mu' = [mu EXCEPT !.r = @ \cup { t }]
    /\ tpc' = [tpc EXCEPT ![t] = "lookup"]
    /\ UNCHANGED << reg, tcall, tcalls, zref, peer, regRest >>

\* id := sessionManager.nextID
RegRead(t) ==
    /\ tpc[t] = "read"
    /\ tcall' = [tcall EXCEPT ![t].id = reg.nextID]
    /\ tpc' = [tpc EXCEPT ![t] = "incr"]
    /\ UNCHANGED << reg, mu, tcalls, zref, peer, regRest >>

\* sessionManager.nextID++
RegIncr(t) ==
    /\ tpc[t] = "incr"
    /\ reg' = [reg EXCEPT !.nextID = @ + 1]
    /\ tpc' = [tpc EXCEPT ![t] = "store"]
    /\ UNCHANGED << mu, tcall, tcalls, zref, peer, regRest >>

\* sessionManager.sessions[id] = session
RegStore(t) ==
    /\ tpc[t] = "store"
    /\ reg' = [reg EXCEPT !.sessions =
                   NewSession([reg EXCEPT !.nextID = tcall[t].id], tcall[t].mode,
                              RegImpl(tcall[t].mode)).sessions]
    /\ tpc' = [tpc EXCEPT ![t] = "unlock"]
    /\ UNCHANGED << mu, tcall, tcalls, zref, peer, regRest >>

\* delete(sessionManager.sessions, id)
RegDelete(t) ==
    /\ tpc[t] = "delete"
    /\ reg' = RemoveSession(reg, tcall[t].id)
    /\ peer' = [peer EXCEPT !.removed =
                    IF HasSession(reg, tcall[t].id) THEN @ \cup { tcall[t].id } ELSE @]
    /\ tpc' = [tpc EXCEPT ![t] = "unlock"]
    /\ UNCHANGED << mu, tcall, tcalls, zref, regRest >>

\* return sessionManager.sessions[id]
RegLookup(t) ==
    /\ tpc[t] = "lookup"
    /\ tcall' = [tcall EXCEPT ![t].found = Lookup(reg, tcall[t].id)]
    /\ tpc' = [tpc EXCEPT ![t] = "runlock"]
    /\ UNCHANGED << reg, mu, tcalls, zref, peer, regRest >>

\* the deferred Unlock(), and the return of NewSession or RemoveSession
RegUnlock(t) ==
    /\ tpc[t] = "unlock"
    /\ mu' = [mu EXCEPT !.w = "free"]
    /\ tpc' = [tpc EXCEPT ![t] = "idle"]
    /\ peer' = IF tcall[t].op = "NewSession"
               THEN [peer EXCEPT !.returned =
                        Append(@, [id |-> tcall[t].id, mode |-> tcall[t].mode])]
               ELSE peer
    /\ UNCHANGED << reg, tcall, tcalls, zref, regRest >>

\* the deferred RUnlock(), and the return of GetSession
RegRUnlock(t) ==
    /\ tpc[t] = "runlock"
    /\ mu' = [mu EXCEPT !.r = @ \ { t }]
    /\ tpc' = [tpc EXCEPT ![t] = "idle"]
    /\ UNCHANGED << reg, tcall, tcalls, zref, peer, regRest >>

RegNext ==
    \E t \in Goroutines :
        \/ \E c \in RegCalls : RegCall(t, c)
        \/ RegLock(t)
        \/ RegRLock(t)
        \/ RegRead(t)
        \/ RegIncr(t)
        \/ RegStore(t)
        \/ RegDelete(t)
        \/ RegLookup(t)
        \/ RegUnlock(t)
        \/ RegRUnlock(t)

SpecRegistry == RegInit /\ [][RegNext]_vars

\* the ids NewSession has returned, in the order of the returns
ReturnedIds == [i \in 1..Len(peer.returned) |-> peer.returned[i].id]

IdsUnique ==
    \A i, j \in 1..Len(peer.returned) : i # j => ReturnedIds[i] # ReturnedIds[j]

\* the session a GetSession(id) has to return: the one NewSession returned id
\* for, unless a RemoveSession(id) has removed it since
Expected(id) ==
    IF id \in peer.removed \/ ~ \E i \in 1..Len(peer.returned) : ReturnedIds[i] = id
    THEN << >>
    ELSE << [ID |-> id,
             Mode |-> (CHOOSE e \in { peer.returned[i] : i \in 1..Len(peer.returned) } :
                          e.id = id).mode] >>

\* what the caller of GetSession sees of the session it got
Seen(found) ==
    IF found = << >> THEN << >> ELSE << [ID |-> found[1].ID, Mode |-> found[1].Mode] >>

GetAnswers ==
    \A t \in Goroutines :
        tpc[t] = "runlock" => Seen(tcall[t].found) = Expected(tcall[t].id)

\* between the calls that hold the mutex, the registry is the one the calls
\* leave when they run one after the other
RegSerial == mu.w = "free" => reg = zref

\* C38: the ids NewSession has returned are pairwise different, also when
\* the session of an earlier one has been removed; GetSession(id) returns the
\* session NewSession returned id for until a RemoveSession(id), nil
\* afterwards and for an id no NewSession returned; and the registry is the
\* one the calls leave when run one after the other, in lock order.
C38_SessionIdsUnique == IdsUnique /\ GetAnswers /\ RegSerial

\* two sessions were created, the first one was removed before the second
\* was stored, the second got another id, and a GetSession of the first id
\* has found nothing
C38_Witness ==
    /\ Len(peer.returned) = 2
    /\ ReturnedIds = << 1, 2 >>
    /\ peer.removed = { 1 }
    /\ DOMAIN reg.sessions = { 2 }
    /\ \E t \in Goroutines :
          /\ tpc[t] = "runlock"
          /\ tcall[t].id = 1
          /\ tcall[t].found = << >>

(***************************************************************************)
(* SSHManager.detectZMODEMSequence: the handshake sniffer                  *)
(***************************************************************************)
MAX_BUFFER_SIZE == 256

szPattern == << 42, 42, 66, 48, 48 >>
rzPattern == << 42, 42, 66, 48, 49 >>
szPatternAlt1 == << 42, 42, 24, 66, 48, 48 >>
rzPatternAlt1 == << 42, 42, 24, 66, 49, 48 >>
szPatternAlt2 == << 42, 24, 66, 48, 48 >>
rzPatternAlt2 == << 42, 24, 66, 48, 49 >>

\* buffer.indexOf(pat) !== -1
Contains(buf, pat) ==
    \E i \in 1..(Len(buf) - Len(pat) + 1) : SubSeq(buf, i, i + Len(pat) - 1) = pat

\* buffer.slice(-n)
Tail256(buf, n) == IF Len(buf) > n THEN SubSeq(buf, Len(buf) - n + 1, Len(buf)) ELSE buf

\* a search that leaves the window as it is when it finds a handshake
SearchWindowKeeps(buffer) ==
    IF Contains(buffer, szPattern) \/ Contains(buffer, szPatternAlt1)
         \/ Contains(buffer, szPatternAlt2)
    THEN [zmodemBuffer |-> buffer, mode |-> "download"]
    ELSE IF Contains(buffer, rzPattern) \/ Contains(buffer, rzPatternAlt1)
              \/ Contains(buffer, rzPatternAlt2)
    THEN [zmodemBuffer |-> buffer, mode |-> "upload"]
    ELSE [zmodemBuffer |-> buffer, mode |-> "none"]

\* the search of detectZMODEMSequence in the trimmed window
SearchWindow(buffer) ==
    IF Contains(buffer, szPattern) \/ Contains(buffer, szPatternAlt1)
         \/ Contains(buffer, szPatternAlt2)
    THEN [zmodemBuffer |-> << >>, mode |-> "download"]
    ELSE IF Contains(buffer, rzPattern) \/ Contains(buffer, rzPatternAlt1)
              \/ Contains(buffer, rzPatternAlt2)
    THEN [zmodemBuffer |-> << >>, mode |-> "upload"]
    ELSE [zmodemBuffer |-> buffer, mode |-> "none"]

\* detectZMODEMSequence: the new zmodemBuffer and the mode found ("none" for null)
detectZMODEMSequence(zmodemBuffer, data) ==
    SearchWindow(Tail256(zmodemBuffer \o data, MAX_BUFFER_SIZE))

(***************************************************************************)
(* Sniffer harness: a channel in passthrough mode receives chunks, each    *)
(* handed to detectZMODEMSequence with the window the previous call left   *)
(***************************************************************************)
MaxSniffChunks == 2

Patterns ==
    { szPattern, rzPattern, szPatternAlt1, rzPatternAlt1, szPatternAlt2, rzPatternAlt2 }

Direction(pat) ==
    IF pat \in { szPattern, szPatternAlt1, szPatternAlt2 } THEN "download" ELSE "upload"

\* the two parts of pat split after its first k bytes
Prefix(pat, k) == SubSeq(pat, 1, k)
Suffix(pat, k) == SubSeq(pat, k + 1, Len(pat))

Splits == { [pat |-> pat, k |-> k] : pat \in Patterns, k \in 1..5 }

ValidSplits == { sp \in Splits : sp.k < Len(sp.pat) }

\* other bytes of a chunk: none, one byte, or more than the window holds
Filler == { << >>, << 120 >>, Repeat(120, MAX_BUFFER_SIZE) }

SniffChunks ==
    { f \o Prefix(sp.pat, sp.k) : f \in { << >>, << 120 >> }, sp \in ValidSplits }
        \cup { Suffix(sp.pat, sp.k) \o f : f \in Filler, sp \in ValidSplits }

SniffInit ==
    /\ CodecIdle
    /\ EngineIdle
    /\ ChannelIdle
    /\ SniffIdle
    /\ PeerIdle
    /\ LockIdle

\* the channel is in passthrough mode: no call has reported a handshake
Passthrough == \A i \in 1..Len(nres) : nres[i] = "none"

Sniff(data) ==
    /\ Passthrough
    /\ Len(nchunks) < MaxSniffChunks
    /\ \E d \in { detectZMODEMSequence(nbuf, data) } :
           /\ nbuf' = d.zmodemBuffer
           /\ nres' = Append(nres, d.mode)
    /\ nchunks' = Append(nchunks, data)
    /\ UNCHANGED << codecVars, engineVars, channelVars, peerVars, lockVars >>

SniffNext == \E data \in SniffChunks : Sniff(data)

SpecSniff == SniffInit /\ [][SniffNext]_vars

\* C3: for every handshake pattern and every split position inside it, when a
\* channel in passthrough mode receives a chunk ending with the pattern's
\* prefix and then a chunk beginning with the remaining suffix, whatever else
\* the two chunks hold, detectZMODEMSequence reports the pattern's direction
\* on the second chunk.
C3_SplitHandshakeDetected ==
    \A sp \in ValidSplits :
        (/\ Len(nchunks) = 2
         /\ nres[1] = "none"
         /\ EndsWith(nchunks[1], Prefix(sp.pat, sp.k))
         /\ StartsWith(nchunks[2], Suffix(sp.pat, sp.k)))
            => nres[2] = Direction(sp.pat)

\* chunks for the window: each pattern whole, its first three bytes behind a
\* byte of terminal output, its remaining bytes, terminal output alone (one
\* byte, or as much as the window holds), and the two directions in one chunk
WindowChunks ==
    Patterns
      \cup { << 120 >> \o Prefix(pat, 3) : pat \in Patterns }
      \cup { Suffix(pat, 3) : pat \in Patterns }
      \cup { << 120 >>, Repeat(120, MAX_BUFFER_SIZE), szPattern \o rzPattern,
             << 66, 48, 48 >> \o Repeat(120, MAX_BUFFER_SIZE) }

WindowNext == \E data \in WindowChunks : Sniff(data)

SpecWindow == SniffInit /\ [][WindowNext]_vars

\* the detection window of the latest call: what the call before left, then
\* the chunk, cut to its last 256 bytes
Window == Tail256(nbuf \o nchunks'[Len(nchunks')], MAX_BUFFER_SIZE)
Reported == nres'[Len(nres')]

HasDownload(w) ==
    \/ Contains(w, << 42, 42, 66, 48, 48 >>)
    \/ Contains(w, << 42, 42, 24, 66, 48, 48 >>)
    \/ Contains(w, << 42, 24, 66, 48, 48 >>)

HasUpload(w) ==
    \/ Contains(w, << 42, 42, 66, 48, 49 >>)
    \/ Contains(w, << 42, 42, 24, 66, 49, 48 >>)
    \/ Contains(w, << 42, 24, 66, 48, 49 >>)

Identified ==
    /\ (HasDownload(Window) /\ ~HasUpload(Window)) => Reported = "download"
    /\ (HasUpload(Window) /\ ~HasDownload(Window)) => Reported = "upload"
    /\ (~HasUpload(Window) /\ ~HasDownload(Window)) =>
           (Reported = "none" /\ nbuf' = Window /\ Len(nbuf') <= MAX_BUFFER_SIZE)
    /\ Reported # "none" => nbuf' = << >>

\* C33: detectZMODEMSequence returns download when the window holds a
\* download pattern and no upload pattern, upload when it holds an upload
\* pattern and no download pattern, null with the window kept (cut to its
\* last 256 bytes) when it holds neither, and clears the window whenever it
\* reports a direction.
C33_DirectionIdentified == [][Len(nchunks') = Len(nchunks) + 1 => Identified]_vars

\* the second chunk completed **\x18B10 behind a byte of terminal output:
\* upload was reported and the window cleared
C33_Witness ==
    /\ Len(nchunks) = 2
    /\ nchunks[1] = << 120, 42, 42, 24 >>
    /\ nchunks[2] = << 66, 49, 48 >>
    /\ nres = << "none", "upload" >>
    /\ nbuf = << >>

(***************************************************************************)
(* ZMODEMManager and SSHManager.  The handlers run to completion on the    *)
(* event loop; each operator below takes the state of the main process as  *)
(* a record W (ssh, mgrs, imports, reg and what the handlers have put out) *)
(* and returns the state the handler leaves.                               *)
(* A manager is [mode, phase, isActive, zmodemSessionId, timers,           *)
(* webContents]: phase "dialog" while start() awaits the file dialog;      *)
(* zmodemSessionId 0 stands for null; timers says the two intervals are    *)
(* set; webContents says webContentsId has been assigned.                  *)
(***************************************************************************)
NoSession == 0

NewZMODEMManager(mode) ==
    [mode |-> mode, phase |-> "dialog", isActive |-> FALSE,
     zmodemSessionId |-> NoSession, timers |-> FALSE, webContents |-> FALSE]

ModeInt(mode) == IF mode = "upload" THEN ModeUpload ELSE ModeDownload

\* cleanup that leaves the manager as it is: still active, timers set,
\* native session kept
cleanupLeavesActive(W, m) == W

\* ZMODEMManager.cleanup
cleanup(W, m) ==
    [W EXCEPT !.mgrs[m] = [@ EXCEPT !.isActive = FALSE, !.timers = FALSE,
                                    !.zmodemSessionId = NoSession],
              !.reg = IF W.mgrs[m].zmodemSessionId # NoSession
                      THEN ZmodemCleanup(@, W.mgrs[m].zmodemSessionId)
                      ELSE @]

\* ZMODEMManager.destroy
destroy(W, m) == cleanup(W, m)

\* exitZMODEM without the release of the installed manager
exitZMODEMKeepsManager(W) ==
    IF ~W.ssh.present THEN W
    ELSE [W EXCEPT !.ssh.zmodemState = "normal", !.ssh.zmodemBuffer = << >>]

\* SSHManager.exitZMODEM
exitZMODEM(W) ==
    IF ~W.ssh.present THEN W
    ELSE [(IF W.ssh.zmodemManager # NoManager
           THEN destroy(W, W.ssh.zmodemManager) ELSE W)
          EXCEPT !.ssh.zmodemManager = NoManager,
                 !.ssh.zmodemState = "normal",
                 !.ssh.zmodemBuffer = << >>]

\* webContents.send to the window of the manager, when it has one
Notify(W, m, kind) ==
    IF W.mgrs[m].webContents
    THEN [W EXCEPT !.ipc = Append(@, [kind |-> kind, mgr |-> m])]
    ELSE W

\* ZMODEMManager.sendComplete / sendError
sendComplete(W, m) == exitZMODEM(Notify(W, m, "complete"))

sendError(W, m) == exitZMODEM(Notify(W, m, "error"))

\* SSHManager.write: [W, threw]; the write is recorded with the mode it was
\* made in (binary in ZMODEM mode, through toString() otherwise)
write(W, data) ==
    IF ~W.ssh.present THEN [W |-> W, threw |-> TRUE]
    ELSE [W |-> [W EXCEPT !.wire = Append(@, [data |-> data,
                                             binary |-> W.ssh.zmodemState = "active"])],
          threw |-> FALSE]

\* the loop of checkAndSendOutput: [W, threw]
RECURSIVE SendLoop(_, _, _)
SendLoop(W, m, iteration) ==
    IF iteration >= MaxIterations THEN [W |-> W, threw |-> FALSE]
    ELSE Bind(ZmodemGetOutputData(W.reg, W.mgrs[m].zmodemSessionId, OutputBufferSize),
              LAMBDA r :
         IF Len(r.out) = 0 THEN [W |-> [W EXCEPT !.reg = r.R], threw |-> FALSE]
         ELSE Bind(write([W EXCEPT !.reg = r.R], r.out), LAMBDA w :
              IF w.threw THEN w
              ELSE IF Len(r.out) < OutputBufferSize THEN w
              ELSE SendLoop(w.W, m, iteration + 1)))

\* the status check that ends checkAndSendOutput
CheckStatus(W, m, st) ==
    IF st.status = StatusCompleted
    THEN cleanup(sendComplete([W EXCEPT !.reg = st.R, !.poll = st.status], m), m)
    ELSE IF st.status = StatusError
    THEN cleanup(sendError([W EXCEPT !.reg = st.R, !.poll = st.status], m), m)
    ELSE [W EXCEPT !.reg = st.R, !.poll = st.status]

\* ZMODEMManager.checkAndSendOutput
checkAndSendOutput(W, m) ==
    IF ~W.mgrs[m].isActive \/ W.mgrs[m].zmodemSessionId = NoSession THEN W
    ELSE Bind(SendLoop(W, m, 0), LAMBDA l :
         IF l.threw THEN l.W
         ELSE CheckStatus(l.W, m, ZmodemGetStatus(l.W.reg, W.mgrs[m].zmodemSessionId)))

\* the branch of handleData taken when zmodemFeedData returned an error
FeedFailed(W, m, st) ==
    IF st.status = StatusError
    THEN cleanup(sendError([W EXCEPT !.reg = st.R, !.poll = st.status], m), m)
    ELSE [W EXCEPT !.reg = st.R, !.poll = st.status]

\* ZMODEMManager.handleData
handleData(W, m, data) ==
    IF ~W.mgrs[m].isActive \/ W.mgrs[m].zmodemSessionId = NoSession THEN W
    ELSE Bind(ZmodemFeedData(W.reg, W.mgrs[m].zmodemSessionId, data), LAMBDA r :
         IF r.ret < 0
         THEN FeedFailed([W EXCEPT !.reg = r.R, !.fed = Append(@, data)], m,
                         ZmodemGetStatus(r.R, W.mgrs[m].zmodemSessionId))
         ELSE checkAndSendOutput([W EXCEPT !.reg = r.R, !.fed = Append(@, data)], m))

\* the part of handleSessionData that follows detectZMODEMSequence
Detected(W, data, d) ==
    IF d.mode # "none"
    THEN [W EXCEPT !.ssh.zmodemBuffer = d.zmodemBuffer,
                   !.ssh.zmodemState = "active",
                   !.imports = Append(@, d.mode),
                   !.arrived = IF W.ssh.zmodemState = "active"
                               THEN Append(@, data) ELSE << >>,
                   !.fed = IF W.ssh.zmodemState = "active" THEN @ ELSE << >>]
    ELSE [W EXCEPT !.ssh.zmodemBuffer = d.zmodemBuffer,
                   !.term = Append(@, [data |-> data,
                                       zmodemState |-> W.ssh.zmodemState]),
                   !.arrived = IF W.ssh.zmodemState = "active"
                               THEN Append(@, data) ELSE @]

\* SSHManager.handleSessionData
handleSessionData(W, data) ==
    IF ~W.ssh.present THEN W
    ELSE IF W.ssh.zmodemState = "active" /\ W.ssh.zmodemManager # NoManager
    THEN handleData([W EXCEPT !.arrived = Append(@, data)], W.ssh.zmodemManager, data)
    ELSE Detected(W, data, detectZMODEMSequence(W.ssh.zmodemBuffer, data))

\* the import() promise resolves: the manager is created and installed, and
\* start() runs up to its await of the file dialog
importResolved(W) ==
    [W EXCEPT !.imports = Tail(@),
              !.mgrs = Append(@, NewZMODEMManager(W.imports[1])),
              !.ssh.zmodemManager = Len(W.mgrs) + 1]

\* the import() promise rejects
importRejected(W) == exitZMODEM([W EXCEPT !.imports = Tail(@)])

\* the catch block of start() followed by the catch of its caller
startFailed(W, m) ==
    exitZMODEM(cleanup(sendError([W EXCEPT !.mgrs[m].phase = "failed"], m), m))

\* the file dialog of manager m settles and start() runs to its end:
\* outcome "cancel" (no path), "initfail" (zmodemInit throws) or "ok"
started(W, m, i) ==
    IF i.id < 0 THEN startFailed(W, m)
    ELSE [W EXCEPT !.reg = i.R,
                   !.mgrs[m] = [@ EXCEPT !.phase = "started",
                                         !.zmodemSessionId = i.id,
                                         !.isActive = TRUE,
                                         !.timers = TRUE]]

dialogSettled(W, m, outcome, content) ==
    IF outcome = "cancel" THEN startFailed(W, m)
    ELSE started([W EXCEPT !.mgrs[m].webContents = TRUE], m,
                 ZmodemInit(W.reg, ModeInt(W.mgrs[m].mode), content, outcome = "ok"))

\* the callback of outputCheckInterval
outputTick(W, m) == checkAndSendOutput(W, m)

\* the callback of progressInterval
progressTick(W, m) ==
    IF ~W.mgrs[m].isActive \/ W.mgrs[m].zmodemSessionId = NoSession THEN W
    ELSE [W EXCEPT !.reg = ZmodemGetProgress(W.reg, W.mgrs[m].zmodemSessionId).R]

\* the 'close' event of the stream: SSHManager.destroy
destroySession(W) ==
    IF ~W.ssh.present THEN W
    ELSE [exitZMODEM(W) EXCEPT !.ssh.present = FALSE]

(***************************************************************************)
(* Channel harness                                                         *)
(***************************************************************************)
MaxChunks == 2

\* what sz sends first: the hex ZRQINIT header
SzHandshake ==
    << 42, 42, 24, 66, 48, 48, 48, 48, 48, 48, 48, 48, 48, 48, 48, 48, 48, 48,
       13, 138, 17 >>
\* shell output
TextChunk == << 108, 115, ChLF >>

ChannelChunks == { HexZRINIT, SzHandshake, PeerZACK, PeerZNAK, TextChunk }

\* the local files the user picks for an upload: an empty one and one of
\* MaxFile bytes
ChannelFiles == { 0, MaxFile }

World ==
    [ssh |-> ssh, mgrs |-> mgrs, imports |-> imports, reg |-> reg,
     term |-> hterm, wire |-> hwire, ipc |-> hipc, fed |-> hfed,
     arrived |-> harrived, poll |-> -1]

Commit(W) ==
    /\ ssh' = W.ssh
    /\ mgrs' = W.mgrs
    /\ imports' = W.imports
    /\ reg' = W.reg
    /\ hterm' = W.term
    /\ hwire' = W.wire
    /\ hipc' = W.ipc
    /\ hfed' = W.fed
    /\ harrived' = W.arrived
    /\ hpoll' = W.poll

restOfChannel == << codecVars, efed, ehist, elog, edisp, eret, eout, estatus, evisited,
                    sniffVars, peerVars, lockVars >>

ChannelInit ==
    /\ CodecIdle
    /\ EngineIdle
    /\ ChannelIdle
    /\ SniffIdle
    /\ PeerIdle
    /\ LockIdle

RecvChunk(data) ==
    /\ ssh.present
    /\ nrecv < MaxChunks
    /\ nrecv' = nrecv + 1
    /\ Commit(handleSessionData(World, data))
    /\ UNCHANGED restOfChannel

ImportResolved ==
    /\ imports # << >>
    /\ Commit(importResolved(World))
    /\ UNCHANGED << nrecv, restOfChannel >>

ImportRejected ==
    /\ imports # << >>
    /\ Commit(importRejected(World))
    /\ UNCHANGED << nrecv, restOfChannel >>

DialogSettled(m, outcome, n) ==
    /\ mgrs[m].phase = "dialog"
    /\ (mgrs[m].mode = "download" => n = 0)
    /\ Commit(dialogSettled(World, m, outcome, FileOf(n)))
    /\ UNCHANGED << nrecv, restOfChannel >>

OutputTick(m) ==
    /\ mgrs[m].timers
    /\ Commit(outputTick(World, m))
    /\ UNCHANGED << nrecv, restOfChannel >>

ProgressTick(m) ==
    /\ mgrs[m].timers
    /\ Commit(progressTick(World, m))
    /\ UNCHANGED << nrecv, restOfChannel >>

ChannelClose ==
    /\ ssh.present
    /\ Commit(destroySession(World))
    /\ UNCHANGED << nrecv, restOfChannel >>

ChannelNext ==
    \/ \E data \in ChannelChunks : RecvChunk(data)
    \/ ImportResolved
    \/ ImportRejected
    \/ \E m \in DOMAIN mgrs : \E outcome \in { "ok", "cancel", "initfail" } :
          \E n \in ChannelFiles : DialogSettled(m, outcome, n)
    \/ \E m \in DOMAIN mgrs : OutputTick(m)
    \/ \E m \in DOMAIN mgrs : ProgressTick(m)
    \/ ChannelClose

SpecChannel == ChannelInit /\ [][ChannelNext]_vars

\* the handler of this step read status completed for the engine of manager
\* m and cleaned the session up
DeclaresComplete(m) ==
    /\ mgrs[m].zmodemSessionId # NoSession
    /\ mgrs'[m].zmodemSessionId = NoSession
    /\ hpoll' = StatusCompleted

\* the state of the main process when that handler began checkAndSendOutput:
\* after the ZmodemFeedData of handleData when the step delivered a chunk
BeforeSend(m) ==
    IF nrecv' = nrecv + 1
    THEN [World EXCEPT !.reg = ZmodemFeedData(reg, mgrs[m].zmodemSessionId,
                                             harrived'[Len(harrived')]).R]
    ELSE World

\* the engine's outbound queue when the handler read the status, its send
\* loop behind it
QueueAtCompletion(m) ==
    SendLoop(BeforeSend(m), m, 0).W.reg.sessions[mgrs[m].zmodemSessionId].impl.outputBuf

\* C34: every frame the engine has placed in its outbound queue is written
\* to the transport before the manager declares the transfer complete and
\* cleans the session up: the queue is empty when it does.
C34_NoQueuedFrameLost ==
    [][\A m \in DOMAIN mgrs : DeclaresComplete(m) => QueueAtCompletion(m) = << >>]_vars

\* the setup of manager m fails in this step: the dialog was cancelled, or
\* ZmodemInit could not open the file or create the engine
SetupFails(m) ==
    /\ ssh.present
    /\ mgrs[m].phase = "dialog"
    /\ mgrs'[m].phase = "failed"

PassthroughRestored ==
    /\ ssh'.zmodemState = "normal"
    /\ ssh'.zmodemBuffer = << >>
    /\ ssh'.zmodemManager = NoManager

NothingLeftRunning ==
    /\ \A k \in DOMAIN mgrs' : ~mgrs'[k].timers /\ mgrs'[k].zmodemSessionId = NoSession
    /\ DOMAIN reg'.sessions = { }

OneErrorSent(m) == hipc' = Append(hipc, [kind |-> "error", mgr |-> m])

\* C37: when session setup fails after a handshake was detected, the channel
\* is back in zmodemState normal with an empty window and no manager, no
\* engine session and no polling timer remain for it, and exactly one error
\* notification is sent.
C37_SetupFailureRestoresPassthrough ==
    [][\A m \in DOMAIN mgrs :
          SetupFails(m) => (PassthroughRestored /\ NothingLeftRunning /\ OneErrorSent(m))]_vars

\* the three parts of the statement on their own, and the last one for a
\* failure that comes after the dialog has returned a path
SetupFailureRestores ==
    [][\A m \in DOMAIN mgrs : SetupFails(m) => PassthroughRestored]_vars
SetupFailureLeavesNothing ==
    [][\A m \in DOMAIN mgrs : SetupFails(m) => NothingLeftRunning]_vars
SetupFailureReported ==
    [][\A m \in DOMAIN mgrs : SetupFails(m) => OneErrorSent(m)]_vars
SetupFailureReportedAfterDialog ==
    [][\A m \in DOMAIN mgrs :
          (SetupFails(m) /\ mgrs'[m].webContents) => OneErrorSent(m)]_vars

\* the managers created for the channel that are live: their timers run or
\* their native session has not been cleaned up
LiveManagers ==
    { m \in DOMAIN mgrs : mgrs[m].timers \/ mgrs[m].zmodemSessionId # NoSession }

\* C4: at most one ZMODEM manager / engine session created for the channel is
\* live (timers running or native session not cleaned up) in every reachable
\* state, whatever chunks arrive between the detection and the installation
\* of the manager.
C4_AtMostOneTransfer == Cardinality(LiveManagers) <= 1

\* C5: while the channel is in ZMODEM mode, the chunks that arrived since the
\* handshake was detected are exactly the chunks passed to ZmodemFeedData, in
\* arrival order: none is dropped while the manager is being created or the
\* file dialog is open.
C5_RoutedToEngine ==
    (ssh.present /\ ssh.zmodemState = "active") => hfed = harrived

\* C6: no inbound chunk is emitted as a 'data' event while the channel's
\* zmodemState is 'active'.
C6_NoProtocolBytesOnTerminal ==
    \A i \in 1..Len(hterm) : hterm[i].zmodemState # "active"

\* the handler that just ran got status 2 or 3 from ZmodemGetStatus
PolledFinished == hpoll \in { StatusCompleted, StatusError }

BackToPassthrough ==
    /\ ssh.zmodemState = "normal"
    /\ ssh.zmodemBuffer = << >>
    /\ ssh.zmodemManager = NoManager

\* no engine session of the registry rests in status 2 or 3
NoFinishedEngineLeft ==
    \A id \in DOMAIN reg.sessions :
        DerivedStatus(reg.sessions[id]) \notin { StatusCompleted, StatusError }

\* a chunk received in 'normal' state is scanned: it is forwarded to the
\* terminal or starts a transfer
ScannedAgain ==
    (ssh.present /\ ssh.zmodemState = "normal" /\ nrecv' = nrecv + 1) =>
        \/ Len(hterm') = Len(hterm) + 1
        \/ Len(imports') = Len(imports) + 1 /\ ssh'.zmodemState = "active"

\* C7: whenever the engine of a channel reaches status 2 or 3 the handler
\* that finds it leaves the channel in zmodemState 'normal' with an empty
\* detection window and no installed manager, no finished engine stays
\* behind, and chunks received in 'normal' state are scanned and forwarded.
C7_ReturnToPassthrough ==
    /\ [](ssh.present => ((PolledFinished => BackToPassthrough) /\ NoFinishedEngineLeft))
    /\ [][ScannedAgain]_vars

C7_Witness == ssh.present /\ PolledFinished /\ BackToPassthrough

\* the channel of a running transfer closes: manager m is installed and
\* active on its engine session when the 'close' handler runs
ClosesDuring(m) ==
    /\ ssh.present
    /\ ~ssh'.present
    /\ ssh.zmodemManager = m
    /\ mgrs[m].isActive
    /\ mgrs[m].zmodemSessionId # NoSession

\* the engine session of manager m is gone after the step
EngineCleanedUp(m) ==
    /\ ~HasSession(reg', mgrs[m].zmodemSessionId)
    /\ mgrs'[m].zmodemSessionId = NoSession
    /\ ~mgrs'[m].timers

\* the step has sent a ZMODEM_ERROR event for manager m
ErrorDelivered(m) ==
    /\ Len(hipc') > Len(hipc)
    /\ hipc'[Len(hipc')] = [kind |-> "error", mgr |-> m]

\* C20: when the SSH channel closes while a transfer is active on it, the
\* step that handles the close cleans the transfer's engine session up
\* (file closed, session removed) and delivers an error notification for
\* that transfer to the window.
C20_TransportCloseReported ==
    [][\A m \in DOMAIN mgrs :
          ClosesDuring(m) => (EngineCleanedUp(m) /\ ErrorDelivered(m))]_vars

\* the part of the above that concerns the engine alone
CloseCleansEngine ==
    [][\A m \in DOMAIN mgrs : ClosesDuring(m) => EngineCleanedUp(m)]_vars

\* the positions of hipc at which manager m sent an event of the given kind
Sent(m, kind) == { i \in 1..Len(hipc) : hipc[i].mgr = m /\ hipc[i].kind = kind }

=============================================================================
